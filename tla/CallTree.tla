------------------------------ MODULE CallTree ------------------------------
(***************************************************************************)
(* The calls of an extrinsic (watcher.ts, processExtrinsics; utils.ts).    *)
(* Wrappers are taken off: a proxy call is made by the account it stands   *)
(* for, a batch holds several.  What is left are the leaves, in the order  *)
(* in which they get their callIdx.                                        *)
(***************************************************************************)
EXTENDS Optional

ResolveMultiAddress(address) ==
  IF address.type = "Id" THEN address.value ELSE <<address.type, address.value>>

BatchCalls == {"Utility.batch", "Utility.batch_all", "Utility.force_batch"}
SingleWrappers ==
  {"Sudo.sudo", "Sudo.sudo_unchecked_weight", "Multisig.as_multi", "Multisig.as_multi_threshold_1"}

RECURSIVE TraverseCallTree(_, _)
TraverseCallTree(call, origin) ==
  CASE call.name = "Proxy.proxy" -> TraverseCallTree(call.call, ResolveMultiAddress(call.real))
    [] call.name \in BatchCalls ->
         FlattenSeq([i \in DOMAIN call.calls |-> TraverseCallTree(call.calls[i], origin)])
    [] call.name \in SingleWrappers -> TraverseCallTree(call.call, origin)
    [] OTHER -> <<[call |-> call, origin |-> origin]>>

\* An extrinsic that is not signed, or signed by an index, has no origin.
LeavesOf(extrinsic) ==
  IF extrinsic.signer = None THEN <<>> ELSE TraverseCallTree(extrinsic.call, extrinsic.signer)
=============================================================================
