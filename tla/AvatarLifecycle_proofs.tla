---------------------- MODULE AvatarLifecycle_proofs ----------------------
(* What the abstract life cycle guarantees to its readers. *)
EXTENDS AvatarLifecycle, TLAPS

LifecycleTypeOK == phase \in [Avatars -> Phases]

LifecycleInv == LifecycleTypeOK /\ Promise

\* Moving avatar a to phase `to' leaves the other avatars where they were.
LEMMA MovesOne ==
  ASSUME LifecycleTypeOK, NEW a \in Avatars, NEW from, NEW to \in Phases, Moves(a, from, to)
  PROVE  /\ LifecycleTypeOK'
         /\ phase'[a] = to
         /\ \A b \in Avatars \ {a} : phase'[b] = phase[b]
BY DEF LifecycleTypeOK, Moves

\* For every set of avatars and number of sizes: as long as only the life
\* cycle's steps happen, a reader finds the original of every stored avatar
\* and every thumbnail of a ready one (AvatarService.GetImage, resolveStorageKey).
THEOREM PromiseKept == Lifecycle => []Promise
<1>1. LifecycleInit => LifecycleInv
  BY DEF LifecycleInit, LifecycleInv, LifecycleTypeOK, Promise, Phases, Stored
<1>2. ASSUME LifecycleInv, LifecycleNext PROVE LifecycleInv'
  <2>1. PICK a \in Avatars :
          \/ Announce(a) \/ Accept(a) \/ Reject(a) \/ Finish(a) \/ Break(a) \/ Remove(a)
          \/ \E k \in 0..NumSizes : Store(a, k) \/ Erase(a, k)
    BY <1>2 DEF LifecycleNext
  <2>2. CASE Announce(a) \/ Reject(a) \/ Remove(a)
    <3>1. PICK to \in {"uploading", "rejected", "deleted"} : \E from : Moves(a, from, to)
      BY <2>2 DEF Announce, Reject, Remove
    <3>2. LifecycleTypeOK' /\ phase'[a] = to /\ \A b \in Avatars \ {a} : phase'[b] = phase[b]
      BY <1>2, <3>1, MovesOne DEF LifecycleInv, Phases
    <3>3. UNCHANGED objects
      BY <3>1 DEF Moves
    <3> QED BY <1>2, <3>1, <3>2, <3>3 DEF LifecycleInv, Promise, Stored, AllBlobs
  <2>3. CASE Accept(a) \/ Break(a)
    <3>1. PICK to \in {"uploaded", "broken"} : \E from : Moves(a, from, to)
      BY <2>3 DEF Accept, Break
    <3>2. LifecycleTypeOK' /\ phase'[a] = to /\ \A b \in Avatars \ {a} : phase'[b] = phase[b]
      BY <1>2, <3>1, MovesOne DEF LifecycleInv, Phases
    <3>3. UNCHANGED objects
      BY <3>1 DEF Moves
    <3>4. <<a, 0>> \in objects
      BY <1>2, <2>3 DEF Accept, Break, Moves, LifecycleInv, Promise
    <3> QED BY <1>2, <3>1, <3>2, <3>3, <3>4 DEF LifecycleInv, Promise, Stored, AllBlobs
  <2>4. CASE Finish(a)
    <3>1. Moves(a, Stored, "ready") /\ AllBlobs(a) \subseteq objects
      BY <2>4 DEF Finish
    <3>2. LifecycleTypeOK' /\ phase'[a] = "ready" /\ \A b \in Avatars \ {a} : phase'[b] = phase[b]
      BY <1>2, <3>1, MovesOne DEF LifecycleInv, Phases
    <3>3. UNCHANGED objects /\ <<a, 0>> \in objects
      BY <1>2, <3>1 DEF Moves, LifecycleInv, Promise
    <3> QED BY <1>2, <3>1, <3>2, <3>3 DEF LifecycleInv, Promise, Stored, AllBlobs
  <2>5. ASSUME NEW k \in 0..NumSizes, Store(a, k) PROVE LifecycleInv'
    BY <1>2, <2>5 DEF Store, LifecycleInv, LifecycleTypeOK, Promise, AllBlobs
  <2>6. ASSUME NEW k \in 0..NumSizes, Erase(a, k) PROVE LifecycleInv'
    BY <1>2, <2>6 DEF Erase, LifecycleInv, LifecycleTypeOK, Promise, Stored, AllBlobs
  <2> QED BY <2>1, <2>2, <2>3, <2>4, <2>5, <2>6
<1>3. ASSUME LifecycleInv, UNCHANGED lifecycleVars PROVE LifecycleInv'
  BY <1>3 DEF lifecycleVars, LifecycleInv, LifecycleTypeOK, Promise
<1> QED BY <1>1, <1>2, <1>3, PTL DEF Lifecycle, LifecycleInv

=============================================================================
