--------------------------- MODULE DSProofStorage ---------------------------
(***************************************************************************)
(* The store of double-spend proofs (src/dsproof/storage.h, storage.cpp): a  *)
(* proof either belongs to an entry of the memory pool or is an orphan, and  *)
(* orphans are counted, limited in number and expire.  The operations are    *)
(* operators on the store: each holds m_lock from its first line to its last. *)
(*                                                                          *)
(* The index by timeStamp is the order of the orphans.  The peer a proof    *)
(* came from and the filter of rejected proofs are left out.                *)
(***************************************************************************)
EXTENDS Integers, SequencesExt

CONSTANTS Proof,
          MaxOrphans  \* m_maxOrphans

ASSUME DSProofStorageAssumption == MaxOrphans \in Nat

\* orphans: oldest first.  claimed: the proofs that are not orphans.
EmptyStorage == [orphans |-> <<>>, claimed |-> {}, m_numOrphans |-> 0]

Orphans(s) == ToSet(s.orphans)

\* size_t(m_maxOrphans * 1.25)
HighWaterMark == (MaxOrphans * 5) \div 4

\* The oldest orphans go until MaxOrphans are left, dontDelete apart.
checkOrphanLimit(s, dontDelete) ==
  LET old == SelectSeq(s.orphans, LAMBDA p : p # dontDelete)
      reaped == SubSeq(old, 1, Min({Len(old), s.m_numOrphans - MaxOrphans}))
  IN IF s.m_numOrphans <= HighWaterMark THEN s
     ELSE [s EXCEPT !.orphans = SelectSeq(@, LAMBDA p : p \notin ToSet(reaped)),
                    !.m_numOrphans = @ - Len(reaped)]

incrementOrphans(s, n, dontDelete) ==
  IF n = 0 THEN s ELSE checkOrphanLimit([s EXCEPT !.m_numOrphans = @ + n], dontDelete)

\* An orphan is claimed by adding it.
add(s, p) ==
  [orphans |-> Remove(s.orphans, p),
   claimed |-> s.claimed \cup {p},
   m_numOrphans |-> IF p \in Orphans(s) THEN s.m_numOrphans - 1 ELSE s.m_numOrphans]

\* The proof is added, counted and flagged, in this order; one that was an orphan
\* before keeps its timeStamp.
addOrphan(s, p) ==
  LET counted == incrementOrphans(add(s, p), 1, p)
  IN [counted EXCEPT
        !.orphans = IF p \in Orphans(s)
                    THEN SelectSeq(s.orphans, LAMBDA q : q = p \/ q \in Orphans(counted))
                    ELSE Append(@, p),
        !.claimed = @ \ {p}]

\* Mutant of orphanExisting: the proof is flagged and not counted.
Mut_OrphanNotCounted(s, p) ==
  IF p \notin s.claimed THEN s
  ELSE [s EXCEPT !.orphans = Append(@, p), !.claimed = @ \ {p}]

orphanExisting(s, p) ==
  IF p \notin s.claimed THEN s
  ELSE LET counted == incrementOrphans(s, 1, p)
       IN [counted EXCEPT !.orphans = Append(@, p), !.claimed = @ \ {p}]

remove(s, p) ==
  [orphans |-> Remove(s.orphans, p),
   claimed |-> s.claimed \ {p},
   m_numOrphans |-> IF p \in Orphans(s) THEN s.m_numOrphans - 1 ELSE s.m_numOrphans]

\* Here all are flagged before they are counted.
orphanAll(s) ==
  incrementOrphans([s EXCEPT !.orphans = @ \o SetToSeq(s.claimed), !.claimed = {}],
                   Cardinality(s.claimed), {})

\* clear(clearOrphans = false)
ClearClaimed(s) == [s EXCEPT !.claimed = {}]

\* The orphans that periodicCleanup finds expired are the k oldest.
Expired(s, k) == [s EXCEPT !.orphans = SubSeq(@, k + 1, Len(@)), !.m_numOrphans = @ - k]
=============================================================================
