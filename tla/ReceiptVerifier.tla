--------------------------- MODULE ReceiptVerifier ---------------------------
(***************************************************************************)
(* Which receipts LiopVerifier accepts (crypto/verifier.ts, the worker     *)
(* workers/zk-verifier.ts and the codec of security/zk.ts).                *)
(*                                                                         *)
(* A receipt is what its bytes commit to: the logic and the output in its  *)
(* journal, the secret its seal was made with, and whether its proof and   *)
(* its co-signature are valid.  Digests and seals are perfect: they are    *)
(* equal only if what they were made from is.  The image id that comes     *)
(* with a receipt is <<logic>>, the logic it is a digest of, or empty.     *)
(***************************************************************************)
EXTENDS Naturals

NoValue == "none"
Policies == {"none", "optimistic", "required"}

\* receiptCodec.decode refuses what is empty, truncated or of another version, and
\* in version 2 what does not have its checksum.
Decodes(r) == r.version \in {1, 2} /\ r.whole

\* tryExtractProxyOutput: proxied logic commits to the request for the remote tool
\* that it returns, whatever the tool then answers.
Expected(logic, output) == IF logic.proxy THEN <<"request", logic.code>> ELSE <<"result", output>>

MatchesOutput(r, logic, output) == output = NoValue \/ r.output = Expected(logic, output)

(* Mutant: the seal is compared only if the output is not given.           *)
AcceptsHmacUnsealed(r, logic, image, o) ==
    /\ o.policy # "required"
    /\ image = <<logic>> /\ r.logic = logic
    /\ MatchesOutput(r, logic, o.output)

\* Version 1, sealed with an HMAC under the secret of the session.
AcceptsHmac(r, logic, image, o) ==
    /\ o.policy # "required"
    /\ image = <<logic>> /\ r.logic = logic
    /\ o.secret # NoValue => r.secret = o.secret
    /\ MatchesOutput(r, logic, o.output)

\* Version 2, a Groth16 proof, perhaps co-signed.
AcceptsProof(r, logic, o) ==
    /\ r.type \in {"groth16", "hybrid"}
    /\ r.type = "hybrid" => r.cosigned
    /\ o.guest # NoValue => r.guest = o.guest
    /\ r.logic = logic
    /\ o.vkey => r.proved
    /\ MatchesOutput(r, logic, o.output)

\* verifyZkReceipt of the worker, which asks for an image id in either version.
VerifyZkReceipt(r, logic, image, o) ==
    /\ image # <<>>
    /\ Decodes(r)
    /\ IF r.version = 1 THEN AcceptsHmac(r, logic, image, o) ELSE AcceptsProof(r, logic, o)

\* LiopVerifier.verifyZkReceipt: without a key of its own a request takes the one
\* registered for its circuit; then a worker of the pool decides.
VerifyInPool(r, logic, image, o, registered) ==
    VerifyZkReceipt(r, logic, image, [o EXCEPT !.vkey = @ \/ registered])
==============================================================================
