-------------------------- MODULE MCCollectionIds ---------------------------
(***************************************************************************)
(* MCCollection with a history of the ids handed out.                      *)
(***************************************************************************)
EXTENDS MCCollection

VARIABLE issued    \* every id that an index call has ever returned

(* The collection with the history of issued ids.                          *)
HistoryInit == Init /\ issued = {}
HistoryNext ==
  /\ Next
  /\ issued' = IF reply'.op = "index" THEN issued \cup {reply'.id} ELSE issued
HistorySpec == HistoryInit /\ [][HistoryNext]_<<vars, issued>>

(* An id returned by an index call names no document that an earlier call  *)
(* returned it for: docs/components/record-store.md, "IDs are therefore    *)
(* unique for the lifetime of the process".                                *)
IdsNeverReused ==
  [][reply'.op = "index" /\ reply' # reply => reply'.id \notin issued]_<<vars, issued>>
=============================================================================
