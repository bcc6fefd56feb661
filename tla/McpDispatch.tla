----------------------------- MODULE McpDispatch -----------------------------
(***************************************************************************)
(* LiopMcpRouter.dispatch (gateway/router.ts): which requests of an MCP    *)
(* client are let through (security/rbac.ts), what answers them, what an   *)
(* answer looks like to clients of either era (gateway/mcp-compat.ts), and *)
(* performTranscoding from the intent it sends to the answer it gives.     *)
(*                                                                         *)
(* How a tool is resolved to a peer and how tools/list waits for the mesh  *)
(* is the subject of McpRouter; here a call has a place and a list comes.  *)
(*                                                                         *)
(* An answer says whether it is a result, an error, an exception thrown at *)
(* the caller of dispatch (hybrid.ts answers 400 then) or nothing at all,  *)
(* whether it carries the fields of the modern era (resultType, ttlMs,     *)
(* cacheScope) and whether it is flagged with isError.                     *)
(***************************************************************************)
EXTENDS Naturals, Sequences

CONSTANTS
    RequestIds,     \* identifiers of requests
    Asks,           \* what is asked: method, version, scopes, argument
    Uris,           \* addresses of resources
    LegacySupport,  \* MCP_LEGACY_SUPPORT_ENABLED
    MaxMessages     \* bound: messages in the answer of a peer

VARIABLES
    guarded,    \* whether liopServer.jwtValidator is set
    request,    \* request[r]: what is asked, where it is, its answer
    stream,     \* stream[r]: the answer of the peer to a remote call
    registered, \* resources of the local server
    offered     \* resources in the cached manifests

dispatchVars == <<guarded, request, stream, registered, offered>>

-----------------------------------------------------------------------------
(* Eras and answers.                                                       *)
-----------------------------------------------------------------------------
isLegacyRequest(ask) ==
    \/ ask.method \in {"initialize", "notifications/initialized"}
    \/ ask.version \in {"absent", "legacy"}

detectEra(ask) ==
    IF ask.version # "modern" /\ LegacySupport /\ isLegacyRequest(ask) THEN "legacy" ELSE "modern"

Result(tags) == [is |-> "result", tags |-> tags, flagged |-> FALSE]
Error == [is |-> "error", tags |-> FALSE, flagged |-> FALSE]
Thrown == [is |-> "thrown", tags |-> FALSE, flagged |-> FALSE]
Nothing == [is |-> "nothing", tags |-> FALSE, flagged |-> FALSE]

adaptResponseForLegacyClient(ask, answer) ==
    IF detectEra(ask) = "legacy" THEN [answer EXCEPT !.tags = FALSE] ELSE answer

\* Result(TRUE), or without its tags for a legacy client.
Tagged(ask) == adaptResponseForLegacyClient(ask, Result(TRUE))

-----------------------------------------------------------------------------
(* Who may ask for what.                                                   *)
-----------------------------------------------------------------------------
Public == {"initialize", "notifications/initialized", "notifications/cancelled", "ping",
           "server/discover", "subscriptions/listen"}

SCOPE_MAP(method) ==
    CASE method = "tools/list" -> {"liop:tools:list"}
      [] method = "tools/call" -> {"liop:tools:call"}
      [] method \in {"resources/list", "resources/read", "resources/templates/list"} ->
            {"liop:resources:read"}
      [] method \in {"prompts/list", "prompts/get"} -> {"liop:schema:read"}
      [] OTHER -> {}

\* A method that is neither public nor in the map needs nothing and is denied.
authorizeRequest(ask) ==
    \/ ask.method \in Public
    \/ /\ ask.auth
       /\ SCOPE_MAP(ask.method) # {}
       /\ SCOPE_MAP(ask.method) \subseteq ask.scopes

-----------------------------------------------------------------------------
(* Dispatch.                                                               *)
-----------------------------------------------------------------------------
Moves(r, phase, answer) ==
    request' = [request EXCEPT ![r] = [phase |-> phase, ask |-> request[r].ask, answer |-> answer]]
Completes(r, answer) == Moves(r, "done", answer)
Waits(r, ask, phase) == request' = [request EXCEPT ![r] = [phase |-> phase, ask |-> ask, answer |-> Nothing]]
Replies(r, ask, answer) == request' = [request EXCEPT ![r] = [phase |-> "done", ask |-> ask, answer |-> answer]]

New(r) == request[r].phase = "none"
Passes(ask) == guarded => authorizeRequest(ask)
Rest == UNCHANGED <<guarded, stream, registered, offered>>

Denied(r, ask) ==
    /\ New(r) /\ ~Passes(ask)
    /\ Replies(r, ask, Error)
    /\ Rest

\* The methods that are answered at once.
Immediate(ask) ==
    CASE ask.method = "initialize" -> IF LegacySupport THEN Result(FALSE) ELSE Error
      [] ask.method \in {"notifications/initialized", "notifications/cancelled"} -> Nothing
      [] ask.method = "server/discover" -> Result(TRUE)
      [] ask.method = "ping" -> Result(FALSE)
      [] ask.method \in {"resources/list", "prompts/list", "resources/templates/list",
                         "subscriptions/listen"} -> Tagged(ask)
      [] OTHER -> Error

Deferred == {"tools/list", "tools/call", "resources/read", "prompts/get"}

AnswerAtOnce(r, ask) ==
    /\ New(r) /\ Passes(ask)
    /\ ask.method \notin Deferred
    /\ Replies(r, ask, Immediate(ask))
    /\ Rest

\* tools/list waits for getRemoteTools.
ListTools(r, ask) ==
    /\ New(r) /\ Passes(ask)
    /\ ask.method = "tools/list"
    /\ Waits(r, ask, "listing")
    /\ Rest

ToolsListed(r) ==
    /\ request[r].phase = "listing"
    /\ Completes(r, Tagged(request[r].ask))
    /\ Rest

\* resources/read and prompts/get: without an argument an error, otherwise a
\* handler of the server is called.
Fetch(r, ask) ==
    /\ New(r) /\ Passes(ask)
    /\ ask.method \in {"resources/read", "prompts/get"}
    /\ IF ask.arg = "missing" THEN Replies(r, ask, Error)
       ELSE Waits(r, ask, IF ask.method = "resources/read" /\ ask.arg \notin registered
                          THEN "unknown" ELSE "handler")
    /\ Rest

\* readResource and getPrompt: an address that was not registered and a handler
\* that throws end the same way; a resource may then come from a manifest.
HandlerReturns(r, good) ==
    LET ask == request[r].ask IN
    /\ request[r].phase = "handler" \/ (request[r].phase = "unknown" /\ ~good)
    /\ Completes(r, IF good \/ (ask.method = "resources/read" /\ ask.arg \in offered)
                   THEN Tagged(ask) ELSE Error)
    /\ Rest

\* dataDictionary and resource of the server; a manifest that is cached.
RegisterResource(u) ==
    /\ u \notin registered
    /\ registered' = registered \cup {u}
    /\ UNCHANGED <<guarded, request, stream, offered>>

OfferResources(us) ==
    /\ offered' = us
    /\ UNCHANGED <<guarded, request, stream, registered>>

-----------------------------------------------------------------------------
(* tools/call.                                                             *)
-----------------------------------------------------------------------------
Silence == [messages |-> <<>>, broken |-> FALSE, audit |-> "none"]

\* transcodeMcpToLiop: the diagnostic tool, a local tool, a peer, or nobody.
\* Without params the look at their name throws, and dispatch rejects.
CallTool(r, ask) ==
    /\ New(r) /\ Passes(ask)
    /\ ask.method = "tools/call"
    /\ CASE ask.arg = "LiopMeshStatus" -> Replies(r, ask, Tagged(ask))
         [] ask.arg = "local" -> Waits(r, ask, "local")
         [] ask.arg = "remote" -> Waits(r, ask, "intent")
         [] ask.arg = "missing" -> Replies(r, ask, Thrown)
         [] OTHER -> Replies(r, ask, Error)
    /\ Rest

\* A tagged result, flagged with isError or not.
Shown(r, flagged) == [Tagged(request[r].ask) EXCEPT !.flagged = flagged]

\* callTool returns a result, flagged or not, or throws.
LocalReturns(r) ==
    /\ request[r].phase = "local"
    /\ \E answer \in {Shown(r, TRUE), Shown(r, FALSE), Error} : Completes(r, answer)
    /\ Rest

Phase(r, phase) == Moves(r, phase, request[r].answer)
Streams(r, rec) == stream' = [stream EXCEPT ![r] = rec]

\* negotiateIntent fails or is refused.
HandshakeFails(r) ==
    /\ request[r].phase = "intent"
    /\ Completes(r, Shown(r, TRUE))
    /\ Rest

\* The peer accepts.  When its key is not one, encapsulation throws in a callback
\* that nobody awaits: the unhandled rejection ends the process.
HandshakeSucceeds(r, goodKey) ==
    /\ request[r].phase = "intent"
    /\ Phase(r, IF goodKey THEN "stream" ELSE "crashed")
    /\ Rest

Receive(r, m) ==
    /\ request[r].phase = "stream"
    /\ Len(stream[r].messages) < MaxMessages
    /\ Streams(r, [stream[r] EXCEPT !.messages = Append(stream[r].messages, m)])
    /\ UNCHANGED <<guarded, request, registered, offered>>

(* Mutant: the error is left to the end of the stream.                     *)
StreamBreaksSilently(r) ==
    /\ request[r].phase = "stream"
    /\ Streams(r, [stream[r] EXCEPT !.broken = TRUE])
    /\ Phase(r, "ended")
    /\ UNCHANGED <<guarded, registered, offered>>

(* Mutant: the error is logged, and nobody is told.                        *)
StreamBreaksUnheard(r) ==
    /\ request[r].phase = "stream"
    /\ Streams(r, [stream[r] EXCEPT !.broken = TRUE])
    /\ Phase(r, "stuck")
    /\ UNCHANGED <<guarded, registered, offered>>

\* A status that is not OK: 'error' comes first and then 'end'.
StreamBreaks(r) ==
    /\ request[r].phase = "stream"
    /\ Streams(r, [stream[r] EXCEPT !.broken = TRUE])
    /\ Moves(r, "ended", Shown(r, TRUE))
    /\ UNCHANGED <<guarded, registered, offered>>

StreamEnds(r) ==
    /\ request[r].phase = "stream"
    /\ Phase(r, "ended")
    /\ Rest

\* The handler of 'end': the receipt of the last message is verified, unless
\* there is none or the message declares an error.  What is not JSON is passed
\* on as text; so is everything after an exception, of the verifier too.  JSON that
\* is not an object gets no tag.
Audit(r, verdict) ==
    LET sent == stream[r].messages
        owed == sent # <<>> /\ ~sent[Len(sent)].declared
    IN /\ request[r].phase = "ended"
       /\ verdict \in IF owed THEN {IF sent[Len(sent)].bound THEN "valid" ELSE "invalid", "thrown"}
                      ELSE {"none"}
       /\ Streams(r, [stream[r] EXCEPT !.audit = verdict])
       /\ \E answer \in IF verdict = "invalid" THEN {Shown(r, TRUE)}
                         ELSE {Shown(r, TRUE), Shown(r, FALSE), Result(FALSE)} :
             Completes(r, IF request[r].answer # Nothing THEN request[r].answer ELSE answer)
       /\ UNCHANGED <<guarded, registered, offered>>

-----------------------------------------------------------------------------
DispatchInit ==
    /\ guarded \in BOOLEAN
    /\ request = [r \in RequestIds |-> [phase |-> "none"]]
    /\ stream = [r \in RequestIds |-> Silence]
    /\ registered = {}
    /\ offered = {}

Dispatch(r, ask) ==
    Denied(r, ask) \/ AnswerAtOnce(r, ask) \/ ListTools(r, ask) \/ Fetch(r, ask) \/ CallTool(r, ask)

Messages == [bound : BOOLEAN, declared : BOOLEAN]

\* What the router and its server do by themselves.
Own(r) ==
    \/ ToolsListed(r) \/ LocalReturns(r)
    \/ \E good \in BOOLEAN : HandlerReturns(r, good)
    \/ \E verdict \in {"none", "valid", "invalid", "thrown"} : Audit(r, verdict)

\* What the peer does.
Peer(r) ==
    \/ HandshakeFails(r) \/ StreamEnds(r) \/ StreamBreaks(r)
    \/ \E good \in BOOLEAN : HandshakeSucceeds(r, good)
    \/ \E m \in Messages : Receive(r, m)

Alive == \A r \in RequestIds : request[r].phase # "crashed"

DispatchNext ==
    /\ Alive
    /\ \/ \E r \in RequestIds, ask \in Asks : Dispatch(r, ask)
       \/ \E r \in RequestIds : Own(r) \/ Peer(r)
       \/ \E u \in Uris : RegisterResource(u)
       \/ \E us \in SUBSET Uris : OfferResources(us)

\* The event loop goes on, and handlers return.  A peer owes nothing.
DispatchFairness == \A r \in RequestIds : WF_dispatchVars(Alive /\ Own(r))

DispatchSpec == DispatchInit /\ [][DispatchNext]_dispatchVars /\ DispatchFairness
-----------------------------------------------------------------------------
(* Properties.                                                             *)
-----------------------------------------------------------------------------
Answers(r) == request[r].phase # "none" /\ request[r].answer # Nothing

\* The peer's result may be anything.
Untyped(r) == request[r].ask.method = "tools/call" /\ request[r].ask.arg = "remote"

(* An answer to a client of 2025 never carries the fields of the modern    *)
(* era, and one to a modern client always does, on whichever path it came: *)
(* at once, after a wait, from a manifest instead of a handler, from a     *)
(* peer (unless what the peer sent is no object).  The three methods of the*)
(* handshake have one form for everyone.                                   *)
EraIsRespected ==
    \A r \in RequestIds :
        LET ask == request[r].ask IN
        /\ Answers(r) /\ request[r].answer.is = "result"
        /\ ask.method \notin {"initialize", "ping", "server/discover"}
        => /\ ask.version = "modern" => request[r].answer.tags \/ Untyped(r)
           /\ ask.version \in {"absent", "legacy"} /\ LegacySupport => ~request[r].answer.tags

(* A remote result that reaches the client without isError belongs to a    *)
(* stream that did not break and to a last message with a receipt for this *)
(* very request; unless the peer itself declared the message an error, sent*)
(* none, or the verifier could not do its work.                            *)
PassedIsBound ==
    \A r \in RequestIds :
        LET sent == stream[r].messages IN
        /\ Answers(r) /\ request[r].phase = "done" /\ ~request[r].answer.flagged
        /\ request[r].ask.method = "tools/call" /\ request[r].ask.arg = "remote"
        /\ request[r].answer.is = "result" /\ stream[r].audit # "thrown"
        => /\ ~stream[r].broken
           /\ sent # <<>> => sent[Len(sent)].bound \/ sent[Len(sent)].declared

(* What the answers of the router tell: the two promises above together.   *)
AnswersAreSound == EraIsRespected /\ PassedIsBound

Silent(r) == request[r].phase \in {"intent", "stream"}
Notified(r) == request[r].ask.method \in {"notifications/initialized", "notifications/cancelled"}

(* Every request but a notification gets an answer, or has its caller told *)
(* by an exception, unless the peer it was sent to stays silent for ever   *)
(* (performTranscoding sets no deadline) or a peer's answer to an intent,  *)
(* with a key that is not one, has ended the process.                      *)
DispatchAnswers ==
    []<>(\/ ~Alive
         \/ \A r \in RequestIds :
               request[r].phase = "none" \/ Answers(r) \/ Notified(r) \/ Silent(r))
=============================================================================
