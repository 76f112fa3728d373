----------------------------- MODULE HwCycleProofs -----------------------------
(***************************************************************************)
(* Proofs about HwCycle: its invariants hold for every period, threshold   *)
(* and bound, in both modes.                                               *)
(***************************************************************************)
EXTENDS HwCycle, TLAPS

(***************************************************************************)
(* The inductive invariant.  NothingUnasked alone is not inductive: what   *)
(* keeps write from sending the zeros is that both commands stay equal, in *)
(* skipped cycles and in quiet ones, until a controller writes one.        *)
(***************************************************************************)
Untouched == ~asked => cmd = pre

IInv == TypeOK /\ Untouched /\ NothingUnasked

\* The initial state satisfies the inductive invariant.
LEMMA InitIInv == Init => IInv
  <1> SUFFICES ASSUME Init PROVE IInv
    OBVIOUS
  <1>1. 0 \in Pos /\ 0 \in 0..MaxTroubles
    BY PosAssumption DEF Pos
  <1>2. TypeOK
    BY <1>1, Zenon DEF Init, TypeOK
  <1> QED
    BY <1>2 DEF Init, IInv, Untouched, NothingUnasked

\* Equal commands are no motion.
LEMMA EqualIsQuiet == \A p \in Pos : ~positionCommandRunning(p, p)
  BY PosAssumption DEF positionCommandRunning, Distance, Pos

\* One more lapse or refusal stays within the bound.
LEMMA TroubleTypes == ASSUME TypeOK, Trouble PROVE troubles' \in 0..MaxTroubles
  BY PosAssumption DEF TypeOK, Trouble

\* write's motion branch sends what a controller asked for.
LEMMA MotionStep == ASSUME IInv, WriteMotion PROVE IInv'
  <1> USE DEF IInv, WriteMotion, MotionWrite
  <1>1. armed' \in BOOLEAN /\ troubles' \in 0..MaxTroubles
    BY TroubleTypes DEF Rearm, TypeOK
  <1>2. TypeOK'
    BY <1>1 DEF TypeOK
  <1>3. asked
    BY EqualIsQuiet DEF Untouched, TypeOK
  <1> QED
    BY <1>2, <1>3 DEF Untouched, NothingUnasked

\* Every step preserves the inductive invariant.
LEMMA NextIInv == IInv /\ [Next]_vars => IInv'
  <1> SUFFICES ASSUME IInv, [Next]_vars PROVE IInv'
    OBVIOUS
  <1> USE DEF IInv, TypeOK, Untouched, NothingUnasked
  <1>1. CASE Read
    BY <1>1 DEF Read
  <1>2. CASE Update
    BY <1>2 DEF Update
  <1>3. CASE WriteMotion
    BY <1>3, MotionStep
  <1>4. CASE WriteQuiet
    BY <1>4 DEF WriteQuiet
  <1>5. CASE WriteSkip
    BY <1>5 DEF WriteSkip
  <1>6. CASE SafetyLapses
    BY <1>6, TroubleTypes DEF SafetyLapses
  <1>7. CASE UNCHANGED vars
    BY <1>7 DEF vars
  <1> QED
    BY <1>1, <1>2, <1>3, <1>4, <1>5, <1>6, <1>7 DEF Next, Write

\* For every period, band of cycles, threshold and bound, in both modes: the
\* loop keeps its types, and whatever cycles are skipped the robot is sent
\* nowhere before a controller has commanded a position: the zeros on_init
\* fills the commands with are never sent (dsr_hw_interface2.cpp:82-84,306).
THEOREM CycleSafe == Spec => [](TypeOK /\ NothingUnasked)
  <1>1. IInv => TypeOK /\ NothingUnasked
    BY DEF IInv
  <1> QED
    BY InitIInv, NextIInv, <1>1, PTL DEF Spec
===============================================================================
