------------------------------ MODULE AliasGroups ------------------------------
(***************************************************************************)
(* What the infos of pointers stand for ("so that we have only one valid   *)
(* object per pointer alias group"): the pointers are in groups, and what  *)
(* becomes known of one pointer is known of its whole group at once.  The  *)
(* analysis implements this with info objects that forward to each other   *)
(* and know their users.                                                   *)
(***************************************************************************)
CONSTANTS
  Pointer,
  Chosen   \* the pointers a select on pointers chooses from, by select

VARIABLES group, reads, writes, direct
usage == <<reads, writes, direct>>

Init ==
  /\ group = [p \in Pointer |-> {p}]
  /\ reads = [p \in Pointer |-> {}]
  /\ writes = [p \in Pointer |-> {}]
  /\ direct = [p \in Pointer |-> FALSE]

\* The pointers that a select chooses from.
Taken == UNION {Chosen[v] : v \in DOMAIN Chosen}

\* Two pointers may hold the same address: what is known of one holds of both.  A
\* group a select has taken pointers from still has them among its users: a merge
\* may draw some of them back.
Merge(p, q) ==
  LET both == group'[p]
  IN  /\ group[p] \cup group[q] \subseteq both
      /\ both \subseteq group[p] \cup group[q] \cup Taken
      /\ group' = [r \in Pointer |-> IF r \in both THEN both ELSE group[r] \ both]
      /\ reads' = [r \in Pointer |-> IF r \in both THEN reads[p] \cup reads[q] ELSE reads[r]]
      /\ writes' = [r \in Pointer |-> IF r \in both THEN writes[p] \cup writes[q] ELSE writes[r]]
      /\ direct' = [r \in Pointer |-> IF r \in both THEN direct[p] \/ direct[q] ELSE direct[r]]

\* Something becomes known of p and of all its group.
Learn(p) ==
  /\ group' = group
  /\ \A q \in group[p] :
       /\ reads[q] \subseteq reads'[q] /\ reads'[q] = reads'[p]
       /\ writes[q] \subseteq writes'[q] /\ writes'[q] = writes'[p]
       /\ direct[q] => direct'[q] /\ direct'[q] = direct'[p]
  /\ \A q \in Pointer \ group[p] :
       reads'[q] = reads[q] /\ writes'[q] = writes[q] /\ direct'[q] = direct[q]

\* The pointers of a select leave their groups for the one of the select.
Take(v) ==
  LET joined == group[v] \cup Chosen[v]
  IN  /\ group' = [r \in Pointer |-> IF r \in joined THEN joined ELSE group[r] \ Chosen[v]]
      /\ reads' = [r \in Pointer |-> IF r \in joined THEN reads[v] ELSE reads[r]]
      /\ writes' = [r \in Pointer |-> IF r \in joined THEN writes[v] ELSE writes[r]]
      /\ direct' = [r \in Pointer |-> IF r \in joined THEN direct[v] ELSE direct[r]]

Next ==
  \/ \E p, q \in Pointer : Merge(p, q)
  \/ \E p \in Pointer : Learn(p)
  \/ \E v \in DOMAIN Chosen : Take(v)

Spec == Init /\ [][Next]_<<group, usage>>

=============================================================================
