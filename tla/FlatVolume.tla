----------------------------- MODULE FlatVolume -----------------------------
(***************************************************************************)
(* What uf_cow_core promises: a volume of bytes that can be read, written  *)
(* and put back to what it was when it was mounted.  A request that is     *)
(* refused is not there; one that is carried out takes effect as a whole.  *)
(***************************************************************************)
EXTENDS Naturals

VARIABLES frozen,    \* the bytes when the volume was mounted
          content,   \* its bytes
          request    \* the request being carried out

NoRequest == [op |-> "none"]

Init ==
  /\ frozen = <<>>
  /\ content = <<>>
  /\ request = NoRequest

(* The data replaces the bytes from first on. *)
Overwritten(c, first, data) ==
  [i \in DOMAIN c |-> IF i >= first /\ i - first \in DOMAIN data THEN data[i - first] ELSE c[i]]

Mount ==
  /\ content' = frozen'
  /\ UNCHANGED request

Write ==
  /\ request = NoRequest /\ request'.op = "write"
  /\ content' = Overwritten(content, request'.first, request'.data)
  /\ UNCHANGED frozen

Read ==
  /\ request = NoRequest /\ request'.op = "read"
  /\ UNCHANGED <<frozen, content>>

Finish ==
  /\ request' = NoRequest
  /\ UNCHANGED <<frozen, content>>

Discard ==
  /\ content' = frozen
  /\ UNCHANGED <<frozen, request>>

Next == Mount \/ Write \/ Read \/ Finish \/ Discard

Spec == Init /\ [][Next]_<<frozen, content, request>>
=============================================================================
