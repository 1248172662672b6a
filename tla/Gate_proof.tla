---------------------------- MODULE Gate_proof -----------------------------
(***************************************************************************)
(* Proofs about Gate, for any number of threads, any set of modes, any     *)
(* environment and any bounds.                                             *)
(***************************************************************************)
EXTENDS Gate, TLAPS

(* The paths of ckpt_core, as facts about positions: how long each is, and *)
(* that the window is entered at "boundary" only and left at "resume".     *)
LEMMA PathFacts ==
  ASSUME NEW m \in DOMAIN Path
  PROVE  /\ Len(Path[m]) \in 5..13
         /\ 1 \in 0..Len(Path[m])
         /\ WindowOf[m] \subseteq 2..Len(Path[m])
         /\ Path[m][1] = "open"
         /\ \A i \in 1..Len(Path[m]) :
              /\ (i \notin WindowOf[m] /\ i + 1 \in WindowOf[m]) => Path[m][i] = "boundary"
              /\ (i \in WindowOf[m] /\ i + 1 \in WindowOf[m]) => Path[m][i] # "resume"
              /\ i \in WindowOf[m] => Path[m][i] \notin {"open", "request", "boundary"}
<1>1. CASE m = "v3" BY <1>1 DEF Path, WindowOf
<1>2. CASE m = "pause" BY <1>2 DEF Path, WindowOf
<1>3. CASE m = "stun" BY <1>3 DEF Path, WindowOf
<1>4. CASE m = "p1d" BY <1>4 DEF Path, WindowOf
<1>5. CASE m = "p1e" BY <1>5 DEF Path, WindowOf
<1> QED BY <1>1, <1>2, <1>3, <1>4, <1>5 DEF Path

(* The initial gate: no phase, no request, nobody in a hook.               *)
LEMMA InitInv == Init => BoundaryInv
<1> SUFFICES ASSUME Init PROVE BoundaryInv OBVIOUS
<1>1. TypeOK
  <2>1. step \in 0..Len(Path[mode]) /\ mode \in Modes BY GateAssumption, PathFacts DEF Init
  <2>2. killed \in BOOLEAN /\ init \in BOOLEAN /\ saved \in BOOLEAN BY DEF Init
  <2> QED BY <2>1, <2>2, GateAssumption DEF Init, TypeOK
<1>2. ~Window BY GateAssumption, PathFacts DEF Init, Window
<1> QED BY <1>1, <1>2, GateAssumption DEF Init, BoundaryInv

(* Every step keeps the types of the gate's fields and of every process.   *)
LEMMA TypeStep == TypeOK /\ [Next]_vars => TypeOK'
<1> SUFFICES ASSUME TypeOK, [Next]_vars PROVE TypeOK' OBVIOUS
<1>0. Len(Path[mode]) \in 5..13 BY GateAssumption, PathFacts DEF TypeOK
<1> USE GateAssumption, <1>0 DEF TypeOK
<1>1. ASSUME NEW m \in Modes, CoreStart(m) PROVE TypeOK'
  <2>1. killed' \in BOOLEAN /\ init' \in BOOLEAN /\ saved' \in BOOLEAN BY <1>1 DEF CoreStart, app, gate
  <2>2. mode' \in Modes /\ step' \in 0..Len(Path[mode'])
    <3>1. m \in DOMAIN Path BY GateAssumption
    <3>2. 1 \in 0..Len(Path[m]) BY <3>1, PathFacts
    <3>3. mode' = m /\ step' = 1 BY <1>1 DEF CoreStart
    <3> QED BY <3>2, <3>3
  <2> QED BY <1>1, <2>1, <2>2 DEF CoreStart, app, gate
<1>2. CASE GateOpen
  <2>1. killed' \in BOOLEAN /\ init' \in BOOLEAN /\ saved' \in BOOLEAN BY <1>2 DEF GateOpen, app, At, Proceed, Quit, Try
  <2>2. mode' \in Modes /\ step' \in 0..Len(Path[mode']) BY <1>2 DEF GateOpen, app, At, Proceed, Quit, Try
  <2>3. CASE phase = "RESUME"
    BY <1>2, <2>1, <2>2, <2>3 DEF GateOpen, app, Proceed, Quit, Try
  <2>4. CASE phase = "INIT"
    <3>1. UNCHANGED <<ckpt_req, breq, bdone, berr, dreq, ddone, derr, phase, bconc, table, snap,
                      round, pc, via, claim, bg, copied, mutex>>
      BY <1>2, <2>4 DEF GateOpen, app, Proceed, Quit, Try
    <3> QED BY <2>1, <2>2, <3>1
  <2> QED BY <1>2, <2>3, <2>4 DEF GateOpen
<1>3. CASE GateTimeout
  <2>1. killed' \in BOOLEAN /\ init' \in BOOLEAN /\ saved' \in BOOLEAN BY <1>3 DEF GateTimeout, app, At, Proceed, Quit, gate
  <2>2. mode' \in Modes /\ step' \in 0..Len(Path[mode']) BY <1>3 DEF GateTimeout, app, At, Proceed, Quit, gate
  <2> QED BY <1>3, <2>1, <2>2 DEF GateTimeout, app, At, Proceed, Quit, gate
<1>4. CASE Prepare
  <2>1. killed' \in BOOLEAN /\ init' \in BOOLEAN /\ saved' \in BOOLEAN BY <1>4 DEF Prepare, app, At, Proceed, Quit, Try, gate
  <2>2. mode' \in Modes /\ step' \in 0..Len(Path[mode']) BY <1>4 DEF Prepare, app, At, Proceed, Quit, Try, gate
  <2> QED BY <1>4, <2>1, <2>2 DEF Prepare, app, At, Proceed, Quit, Try, gate
<1>5. CASE ReadPages
  <2>1. killed' \in BOOLEAN /\ init' \in BOOLEAN /\ saved' \in BOOLEAN BY <1>5 DEF ReadPages, app, At, Proceed, Quit, Try, gate
  <2>2. mode' \in Modes /\ step' \in 0..Len(Path[mode'])
    BY <1>5 DEF ReadPages, app, At, Proceed, Quit, Try, gate
  <2> QED BY <1>5, <2>1, <2>2 DEF ReadPages, app, At, Proceed, Quit, Try, gate
<1>6. CASE StunCopy
  <2>1. killed' \in BOOLEAN /\ init' \in BOOLEAN /\ saved' \in BOOLEAN BY <1>6 DEF StunCopy, app, At, Proceed, Quit, Try, gate
  <2>2. mode' \in Modes /\ step' \in 0..Len(Path[mode']) BY <1>6 DEF StunCopy, app, At, Proceed, Quit, Try, gate
  <2> QED BY <1>6, <2>1, <2>2 DEF StunCopy, app, At, Proceed, Quit, Try, gate
<1>34. CASE WriteEmptyDelta
  <2>1. killed' \in BOOLEAN /\ init' \in BOOLEAN /\ saved' \in BOOLEAN BY <1>34 DEF WriteEmptyDelta, app, At, Proceed, Quit, Try, gate
  <2>2. mode' \in Modes /\ step' \in 0..Len(Path[mode'])
    BY <1>34 DEF WriteEmptyDelta, app, At, Proceed, Quit, Try, gate
  <2> QED BY <1>34, <2>1, <2>2 DEF WriteEmptyDelta, app, At, Proceed, Quit, Try, gate
<1>7. CASE Signal
  BY <1>7 DEF Signal, app, At, Proceed, Quit
<1>8. CASE AwaitBaseline
  <2>1. killed' \in BOOLEAN /\ init' \in BOOLEAN /\ saved' \in BOOLEAN BY <1>8 DEF AwaitBaseline, app, At, Proceed, Quit, gate
  <2>2. mode' \in Modes /\ step' \in 0..Len(Path[mode']) BY <1>8 DEF AwaitBaseline, app, At, Proceed, Quit, gate
  <2> QED BY <1>8, <2>1, <2>2 DEF AwaitBaseline, app, At, Proceed, Quit, gate
<1>9. CASE Request
  BY <1>9 DEF Request, app, At, Proceed, Quit
<1>10. CASE AwaitBoundary
  BY <1>10 DEF AwaitBoundary, app, At, Proceed, Quit, gate
<1>11. CASE SignalDelta
  <2>1. killed' \in BOOLEAN /\ init' \in BOOLEAN /\ saved' \in BOOLEAN BY <1>11 DEF SignalDelta, app, At, Proceed, Quit, Try
  <2>2. mode' \in Modes /\ step' \in 0..Len(Path[mode']) BY <1>11 DEF SignalDelta, app, At, Proceed, Quit, Try
  <2> QED BY <1>11, <2>1, <2>2 DEF SignalDelta, app, At, Proceed, Quit, Try
<1>12. CASE AwaitDelta
  BY <1>12 DEF AwaitDelta, app, At, Proceed, Quit, gate
<1>13. CASE SnapshotGate
  BY <1>13 DEF SnapshotGate, app, At, Proceed, Quit, gate
<1>14. CASE ClearRequests
  BY <1>14 DEF ClearRequests, app, At, Proceed, Quit
<1>15. CASE Finalize
  BY <1>15 DEF Finalize, app, At, Proceed, Quit, gate
<1>16. CASE Unrequest
  <2>1. killed' \in BOOLEAN /\ init' \in BOOLEAN /\ saved' \in BOOLEAN BY <1>16 DEF Unrequest, app, At, Proceed, Quit
  <2>2. mode' \in Modes /\ step' \in 0..Len(Path[mode']) BY <1>16 DEF Unrequest, app, At, Proceed, Quit
  <2> QED BY <1>16, <2>1, <2>2 DEF Unrequest, app, At, Proceed, Quit
<1>17. CASE Resume
  BY <1>17 DEF Resume, app, At, Proceed, Quit
<1>18. CASE Killed
  <2>1. killed' \in BOOLEAN /\ init' \in BOOLEAN /\ saved' \in BOOLEAN BY <1>18 DEF Killed, app, At, Proceed, Quit, gate
  <2>2. mode' \in Modes /\ step' \in 0..Len(Path[mode']) BY <1>18 DEF Killed, app, At, Proceed, Quit, gate
  <2> QED BY <1>18, <2>1, <2>2 DEF Killed, app, At, Proceed, Quit, gate
<1>19. ASSUME NEW t \in Threads, NEW hook \in {"sync", "memcpy"}, Enter(t, hook) PROVE TypeOK'
  <2>1. killed' \in BOOLEAN /\ init' \in BOOLEAN /\ saved' \in BOOLEAN BY <1>19 DEF Enter, core, Goto
  <2>2. mode' \in Modes /\ step' \in 0..Len(Path[mode']) BY <1>19 DEF Enter, core, Goto
  <2> QED BY <1>19, <2>1, <2>2 DEF Enter, core, Goto
<1>20. ASSUME NEW t \in Threads, CkptCheck(t) PROVE TypeOK'
  BY <1>20 DEF CkptCheck, After, core, Goto, gate
<1>21. ASSUME NEW t \in Threads, Lock(t) PROVE TypeOK'
  <2>1. killed' \in BOOLEAN /\ init' \in BOOLEAN /\ saved' \in BOOLEAN BY <1>21 DEF Lock, core
  <2>2. mode' \in Modes /\ step' \in 0..Len(Path[mode']) BY <1>21 DEF Lock, core
  <2>3. mutex' \in Threads \cup {NoThread} BY <1>21 DEF Lock
  <2>4. pc' \in [Threads -> {"run", "ckpt", "lock", "held", "park", "parkcopy",
                "baseline", "copy", "delta", "deltacopy", "fini", "gone"}]
    BY <1>21 DEF Lock, After, Goto
  <2> QED BY <1>21, <2>1, <2>2, <2>3, <2>4 DEF Lock, core, gate
<1>22. ASSUME NEW t \in Threads, Park(t) PROVE TypeOK'
  BY <1>22 DEF Park, core, Goto
<1>23. ASSUME NEW t \in Threads, Unpark(t) PROVE TypeOK'
  BY <1>23 DEF Unpark, After, core, Goto, gate
<1>24. ASSUME NEW t \in Threads, ClaimDelta(t) PROVE TypeOK'
  BY <1>24 DEF ClaimDelta, core, Goto
<1>25. ASSUME NEW t \in Threads, DeltaCopied(t) PROVE TypeOK'
  <2>1. derr' \in {0, 1} BY <1>25 DEF DeltaCopied, Outcome
  <2> QED BY <1>25, <2>1 DEF DeltaCopied, core, Goto
<1>26. ASSUME NEW t \in Threads, NoDelta(t) PROVE TypeOK'
  BY <1>26 DEF NoDelta, core, Goto, gate
<1>27. ASSUME NEW t \in Threads, ClaimBaseline(t) PROVE TypeOK'
  <2>1. killed' \in BOOLEAN /\ init' \in BOOLEAN /\ saved' \in BOOLEAN BY <1>27 DEF ClaimBaseline, core, Goto
  <2>2. mode' \in Modes /\ step' \in 0..Len(Path[mode']) BY <1>27 DEF ClaimBaseline, core, Goto
  <2>3. claim' \in [Threads -> 0..MaxRounds] BY <1>27 DEF ClaimBaseline, core, Goto
  <2>4. bg' \subseteq 0..MaxRounds BY <1>27 DEF ClaimBaseline, core, Goto
  <2>5. berr' \in {0, 1} /\ bdone' \in {0, 1} BY <1>27 DEF ClaimBaseline, core, Goto
  <2>6. pc' \in [Threads -> {"run", "ckpt", "lock", "held", "park", "parkcopy",
                "baseline", "copy", "delta", "deltacopy", "fini", "gone"}]
    BY <1>27 DEF ClaimBaseline, core, Goto
  <2>7. breq' = 2 /\ UNCHANGED <<phase, ckpt_req, bconc, dreq, ddone, derr, table, core, via, mutex,
                init, copied>>
    BY <1>27 DEF ClaimBaseline
  <2> QED BY <2>1, <2>2, <2>3, <2>4, <2>5, <2>6, <2>7 DEF core
<1>28. ASSUME NEW t \in Threads, NoBaseline(t) PROVE TypeOK'
  BY <1>28 DEF NoBaseline, core, Goto, gate
<1>29. ASSUME NEW t \in Threads, BaselineCopied(t) PROVE TypeOK'
  <2>1. killed' \in BOOLEAN /\ init' \in BOOLEAN /\ saved' \in BOOLEAN BY <1>29 DEF BaselineCopied, core, Goto, Report, Outcome
  <2>2. mode' \in Modes /\ step' \in 0..Len(Path[mode'])
    BY <1>29 DEF BaselineCopied, core, Goto, Report, Outcome
  <2>3. copied' \subseteq 0..MaxRounds
    <3>1. claim[t] \in 0..MaxRounds /\ copied \subseteq 0..MaxRounds OBVIOUS
    <3>2. copied' = copied \cup {claim[t]} BY <1>29 DEF BaselineCopied, Report
    <3> QED BY <3>1, <3>2
  <2>4. berr' \in {0, 1} /\ bdone' \in {0, 1} BY <1>29 DEF BaselineCopied, core, Goto, Report, Outcome
  <2>5. UNCHANGED <<phase, ckpt_req, breq, bconc, dreq, ddone, derr, table, core, mutex, init,
                via, claim, bg>> /\ pc' = [pc EXCEPT ![t] = "delta"]
    BY <1>29 DEF BaselineCopied, Report, Goto
  <2> QED BY <2>1, <2>2, <2>3, <2>4, <2>5 DEF core
<1>30. ASSUME NEW t \in Threads, Alloc(t) PROVE TypeOK'
  BY <1>30 DEF Alloc, core, gate, app
<1>31. ASSUME NEW r \in 0..MaxRounds, BackgroundCopied(r) PROVE TypeOK'
  BY <1>31 DEF BackgroundCopied, core, Report, Outcome
<1>32. CASE Exit
  BY <1>32 DEF Exit, core, gate
<1>35. CASE AgentCopy
  BY <1>35 DEF AgentCopy, gate, app
<1>36. ASSUME NEW t \in Threads, Fini(t) PROVE TypeOK'
  BY <1>36 DEF Fini, core, Goto
<1>33. CASE UNCHANGED vars
  BY <1>33 DEF vars, gate, core, app
<1> QED
  BY <1>1, <1>2, <1>3, <1>4, <1>5, <1>6, <1>7, <1>8, <1>9, <1>10, <1>11, <1>12, <1>13, <1>14,
     <1>15, <1>16, <1>17, <1>18, <1>19, <1>20, <1>21, <1>22, <1>23, <1>24, <1>25, <1>26, <1>27,
     <1>28, <1>29, <1>30, <1>31, <1>32, <1>33, <1>34, <1>35, <1>36
  DEF Next, Core, Hook, Sync, MemcpyAsync, Background

(* Every step keeps the invariant.                                         *)
LEMMA InvStep == BoundaryInv /\ [Next]_vars => BoundaryInv'
<1> SUFFICES ASSUME BoundaryInv, [Next]_vars PROVE BoundaryInv' OBVIOUS
<1>a. TypeOK' BY TypeStep DEF BoundaryInv
<1>b. /\ Len(Path[mode]) \in 5..13
      /\ WindowOf[mode] \subseteq 2..Len(Path[mode])
      /\ Path[mode][1] = "open"
      /\ \A i \in 1..Len(Path[mode]) :
           /\ (i \notin WindowOf[mode] /\ i + 1 \in WindowOf[mode]) => Path[mode][i] = "boundary"
           /\ (i \in WindowOf[mode] /\ i + 1 \in WindowOf[mode]) => Path[mode][i] # "resume"
           /\ i \in WindowOf[mode] => Path[mode][i] \notin {"open", "request", "boundary"}
  BY GateAssumption, PathFacts DEF TypeOK, BoundaryInv
<1>c. /\ mode \in Modes /\ step \in 0..Len(Path[mode])
      /\ pc \in [Threads -> {"run", "ckpt", "lock", "held", "park", "parkcopy",
                "baseline", "copy", "delta", "deltacopy", "fini", "gone"}]
  BY DEF BoundaryInv, TypeOK
<1> USE GateAssumption, <1>a, <1>b, <1>c DEF BoundaryInv, Window, Stopped, Leaving
<1>1. ASSUME NEW m \in Modes, CoreStart(m) PROVE BoundaryInv'
  BY <1>1, PathFacts DEF CoreStart, app, gate
<1>2. CASE GateOpen
  BY <1>2 DEF GateOpen, app, At, Proceed, Quit, Try
<1>3. CASE GateTimeout
  BY <1>3 DEF GateTimeout, app, At, Proceed, Quit, gate
<1>4. CASE Prepare
  BY <1>4 DEF Prepare, app, At, Proceed, Quit, Try, gate
<1>5. CASE ReadPages
  BY <1>5 DEF ReadPages, app, At, Proceed, Quit, Try, gate
<1>6. CASE StunCopy
  BY <1>6 DEF StunCopy, app, At, Proceed, Quit, Try, gate
<1>34. CASE WriteEmptyDelta
  BY <1>34 DEF WriteEmptyDelta, app, At, Proceed, Quit, Try, gate
<1>7. CASE Signal
  BY <1>7 DEF Signal, app, At, Proceed, Quit
<1>8. CASE AwaitBaseline
  BY <1>8 DEF AwaitBaseline, app, At, Proceed, Quit, gate
<1>9. CASE Request
  BY <1>9 DEF Request, app, At, Proceed, Quit
<1>10. CASE AwaitBoundary
  BY <1>10 DEF AwaitBoundary, app, At, Proceed, Quit, gate
<1>11. CASE SignalDelta
  BY <1>11 DEF SignalDelta, app, At, Proceed, Quit, Try
<1>12. CASE AwaitDelta
  BY <1>12 DEF AwaitDelta, app, At, Proceed, Quit, gate
<1>13. CASE SnapshotGate
  BY <1>13 DEF SnapshotGate, app, At, Proceed, Quit, gate
<1>14. CASE ClearRequests
  BY <1>14 DEF ClearRequests, app, At, Proceed, Quit
<1>15. CASE Finalize
  BY <1>15 DEF Finalize, app, At, Proceed, Quit, gate
<1>16. CASE Unrequest
  BY <1>16 DEF Unrequest, app, At, Proceed, Quit
<1>17. CASE Resume
  BY <1>17 DEF Resume, app, At, Proceed, Quit
<1>18. CASE Killed
  BY <1>18 DEF Killed, app, At, Proceed, Quit, gate
<1>19. ASSUME NEW t \in Threads, NEW hook \in {"sync", "memcpy"}, Enter(t, hook)
       PROVE BoundaryInv'
  BY <1>19 DEF Enter, core, Goto
<1>20. ASSUME NEW t \in Threads, CkptCheck(t) PROVE BoundaryInv'
  BY <1>20 DEF CkptCheck, After, core, Goto, gate
<1>21. ASSUME NEW t \in Threads, Lock(t) PROVE BoundaryInv'
  BY <1>21 DEF Lock, After, core, Goto, gate
<1>22. ASSUME NEW t \in Threads, Park(t) PROVE BoundaryInv'
  BY <1>22 DEF Park, core, Goto
<1>23. ASSUME NEW t \in Threads, Unpark(t) PROVE BoundaryInv'
  BY <1>23 DEF Unpark, After, core, Goto, gate
<1>24. ASSUME NEW t \in Threads, ClaimDelta(t) PROVE BoundaryInv'
  BY <1>24 DEF ClaimDelta, core, Goto
<1>25. ASSUME NEW t \in Threads, DeltaCopied(t) PROVE BoundaryInv'
  BY <1>25 DEF DeltaCopied, core, Goto, Outcome
<1>26. ASSUME NEW t \in Threads, NoDelta(t) PROVE BoundaryInv'
  BY <1>26 DEF NoDelta, core, Goto, gate
<1>27. ASSUME NEW t \in Threads, ClaimBaseline(t) PROVE BoundaryInv'
  BY <1>27 DEF ClaimBaseline, core, Goto
<1>28. ASSUME NEW t \in Threads, NoBaseline(t) PROVE BoundaryInv'
  BY <1>28 DEF NoBaseline, core, Goto, gate
<1>29. ASSUME NEW t \in Threads, BaselineCopied(t) PROVE BoundaryInv'
  BY <1>29 DEF BaselineCopied, core, Goto, Report, Outcome
<1>30. ASSUME NEW t \in Threads, Alloc(t) PROVE BoundaryInv'
  BY <1>30 DEF Alloc, core, gate, app
<1>31. ASSUME NEW r \in 0..MaxRounds, BackgroundCopied(r) PROVE BoundaryInv'
  BY <1>31 DEF BackgroundCopied, core, Report, Outcome
<1>32. CASE Exit
  BY <1>32 DEF Exit, core, gate
<1>35. CASE AgentCopy
  BY <1>35 DEF AgentCopy, gate, app
<1>36. ASSUME NEW t \in Threads, Fini(t) PROVE BoundaryInv'
  BY <1>36 DEF Fini, core, Goto
<1>33. CASE UNCHANGED vars
  BY <1>33 DEF vars, gate, core, app
<1> QED
  BY <1>1, <1>2, <1>3, <1>4, <1>5, <1>6, <1>7, <1>8, <1>9, <1>10, <1>11, <1>12, <1>13, <1>14,
     <1>15, <1>16, <1>17, <1>18, <1>19, <1>20, <1>21, <1>22, <1>23, <1>24, <1>25, <1>26, <1>27,
     <1>28, <1>29, <1>30, <1>31, <1>32, <1>33, <1>34, <1>35, <1>36
  DEF Next, Core, Hook, Sync, MemcpyAsync, Background

(* The invariant holds whatever is killed, fails or exits.                 *)
THEOREM Invariance == Spec => []BoundaryInv
  BY InitInv, InvStep, PTL DEF Spec

(* The gate's fields, ckpt_core and the threads have their types.          *)
THEOREM GateTypeCorrect == Spec => []TypeOK
<1>1. BoundaryInv => TypeOK BY DEF BoundaryInv
<1> QED BY <1>1, Invariance, PTL

(* Between the boundary and the release, the thread that signalled it      *)
(* stays parked with the mutex, in every mode and for any number of        *)
(* threads and of rounds, also when ckpt_core is killed and run again.     *)
THEOREM BoundaryIsHeld == Spec => []BoundaryHeld
<1>1. BoundaryInv => BoundaryHeld BY DEF BoundaryInv, BoundaryHeld
<1> QED BY <1>1, Invariance, PTL

(* Where the wait for the base stands in each path: right behind its       *)
(* request, after "open" and before what clears the request.               *)
LEMMA AwaitFacts ==
  ASSUME NEW m \in DOMAIN Path
  PROVE  /\ AwaitAt[m] \in 0..Len(Path[m]) /\ AwaitAt[m] # 1
         /\ \A i \in 1..Len(Path[m]) :
              /\ Path[m][i] = "await" <=> i = AwaitAt[m]
              /\ Path[m][i] = "signal" <=> i + 1 = AwaitAt[m]
         /\ AwaitAt[m] < Len(Path[m])
<1>1. CASE m = "v3" BY <1>1 DEF Path, AwaitAt
<1>2. CASE m = "pause" BY <1>2 DEF Path, AwaitAt
<1>3. CASE m = "stun" BY <1>3 DEF Path, AwaitAt
<1>4. CASE m = "p1d" BY <1>4 DEF Path, AwaitAt
<1>5. CASE m = "p1e" BY <1>5 DEF Path, AwaitAt
<1> QED BY <1>1, <1>2, <1>3, <1>4, <1>5 DEF Path

(* Every step keeps what relates the one copy under way to the run that    *)
(* waits for it.                                                           *)
LEMMA BaselineStep == BoundaryInv /\ BaselineInv /\ [Next]_vars => BaselineInv'
<1> SUFFICES ASSUME BoundaryInv, BaselineInv, [Next]_vars PROVE BaselineInv' OBVIOUS
<1>a. /\ AwaitAt[mode] \in Nat /\ AwaitAt[mode] # 1 /\ AwaitAt[mode] < Len(Path[mode])
      /\ \A i \in 1..Len(Path[mode]) :
           /\ Path[mode][i] = "await" <=> i = AwaitAt[mode]
           /\ Path[mode][i] = "signal" <=> i + 1 = AwaitAt[mode]
      /\ Len(Path[mode]) \in 5..13 /\ Path[mode][1] = "open"
  BY GateAssumption, AwaitFacts, PathFacts DEF TypeOK, BoundaryInv
<1>b. /\ step \in 0..Len(Path[mode]) /\ breq \in {0, 1, 2} /\ bdone \in {0, 1} /\ berr \in {0, 1}
      /\ pc \in [Threads -> {"run", "ckpt", "lock", "held", "park", "parkcopy",
                             "baseline", "copy", "delta", "deltacopy", "fini", "gone"}]
      /\ via \in [Threads -> {"sync", "memcpy"}] /\ claim \in [Threads -> 0..MaxRounds]
      /\ round \in 0..MaxRounds
  BY DEF BoundaryInv, TypeOK
<1> USE <1>a, <1>b DEF BaselineInv, OneCopy, Awaiting
<1>1. ASSUME NEW m \in Modes, CoreStart(m) PROVE BaselineInv'
  BY <1>1, AwaitFacts, GateAssumption DEF CoreStart, gate, app
<1>2. CASE GateOpen
  BY <1>2 DEF GateOpen, At, Proceed, Quit, Try, app
<1>3. CASE GateTimeout
  BY <1>3 DEF GateTimeout, At, Quit, gate, app
<1>4. CASE Prepare
  BY <1>4 DEF Prepare, At, Try, Proceed, Quit, gate, app
<1>5. CASE ReadPages
  BY <1>5 DEF ReadPages, At, Try, Proceed, Quit, gate, app
<1>6. CASE StunCopy
  BY <1>6 DEF StunCopy, At, Try, Proceed, Quit, gate, app
<1>7. CASE WriteEmptyDelta
  BY <1>7 DEF WriteEmptyDelta, At, Try, Proceed, Quit, gate, app
<1>8. CASE Signal
  BY <1>8 DEF Signal, At, Proceed, app
<1>9. CASE AwaitBaseline
  BY <1>9 DEF AwaitBaseline, At, Proceed, Quit, gate, app
<1>10. CASE Request
  BY <1>10 DEF Request, At, Proceed, app
<1>11. CASE AwaitBoundary
  BY <1>11 DEF AwaitBoundary, At, Proceed, gate, app
<1>12. CASE SignalDelta
  BY <1>12 DEF SignalDelta, At, Try, Proceed, Quit, app
<1>13. CASE AwaitDelta
  BY <1>13 DEF AwaitDelta, At, Proceed, gate, app
<1>14. CASE SnapshotGate
  BY <1>14 DEF SnapshotGate, At, Proceed, gate, app
<1>15. CASE ClearRequests
  BY <1>15 DEF ClearRequests, At, Proceed, app
<1>16. CASE Finalize
  BY <1>16 DEF Finalize, At, Proceed, gate, app
<1>17. CASE Unrequest
  BY <1>17 DEF Unrequest, At, Proceed, Quit, app
<1>18. CASE Resume
  BY <1>18 DEF Resume, At, Proceed, app
<1>19. CASE Killed
  BY <1>19 DEF Killed, gate, app
<1>20. ASSUME NEW t \in Threads, NEW hook \in {"sync", "memcpy"}, Enter(t, hook) PROVE BaselineInv'
  BY <1>20 DEF Enter, Goto, core
<1>21. ASSUME NEW t \in Threads, CkptCheck(t) PROVE BaselineInv'
  BY <1>21 DEF CkptCheck, Goto, After, gate, core
<1>22. ASSUME NEW t \in Threads, Lock(t) PROVE BaselineInv'
  BY <1>22 DEF Lock, Goto, After, gate, core
<1>23. ASSUME NEW t \in Threads, Park(t) PROVE BaselineInv'
  BY <1>23 DEF Park, Goto, core
<1>24. ASSUME NEW t \in Threads, Unpark(t) PROVE BaselineInv'
  BY <1>24 DEF Unpark, Goto, After, gate, core
<1>25. ASSUME NEW t \in Threads, ClaimDelta(t) PROVE BaselineInv'
  BY <1>25 DEF ClaimDelta, Goto, core
<1>26. ASSUME NEW t \in Threads, DeltaCopied(t) PROVE BaselineInv'
  BY <1>26 DEF DeltaCopied, Goto, core
<1>27. ASSUME NEW t \in Threads, NoDelta(t) PROVE BaselineInv'
  BY <1>27 DEF NoDelta, Goto, gate, core
<1>28. ASSUME NEW t \in Threads, ClaimBaseline(t) PROVE BaselineInv'
  BY <1>28 DEF ClaimBaseline, Goto, core
<1>29. ASSUME NEW t \in Threads, NoBaseline(t) PROVE BaselineInv'
  BY <1>29 DEF NoBaseline, Goto, gate, core
<1>30. ASSUME NEW t \in Threads, BaselineCopied(t) PROVE BaselineInv'
  BY <1>30 DEF BaselineCopied, Goto, Report, Outcome, core
<1>31. ASSUME NEW t \in Threads, Alloc(t) PROVE BaselineInv'
  BY <1>31 DEF Alloc, gate, core, app
<1>32. ASSUME NEW r \in 0..MaxRounds, BackgroundCopied(r) PROVE BaselineInv'
  BY <1>32 DEF BackgroundCopied, Report, Outcome, core
<1>33. CASE Exit
  BY <1>33 DEF Exit, core, gate
<1>35. CASE AgentCopy
  BY <1>35 DEF AgentCopy, gate, app
<1>36. ASSUME NEW t \in Threads, Fini(t) PROVE BaselineInv'
  BY <1>36 DEF Fini, core, Goto
<1>34. CASE UNCHANGED vars
  BY <1>34 DEF vars, gate, core, app
<1> QED
  BY <1>1, <1>2, <1>3, <1>4, <1>5, <1>6, <1>7, <1>8, <1>9, <1>10, <1>11, <1>12,
     <1>13, <1>14, <1>15, <1>16, <1>17, <1>18, <1>19, <1>20, <1>21, <1>22, <1>23,
     <1>24, <1>25, <1>26, <1>27, <1>28, <1>29, <1>30, <1>31, <1>32, <1>33, <1>34, <1>35, <1>36
  DEF Next, Core, Hook, Sync, MemcpyAsync, Background

(* As long as no run is killed, a base that a run goes on with was copied  *)
(* for that run: for any number of threads, of any process, for detached   *)
(* copies, failed ones, and runs that quit.                                *)
THEOREM BaselineIsOfTheRound == Spec => []BaselineAnswersRound
<1>1. Init => BaselineInv
  BY GateAssumption, AwaitFacts DEF Init, BaselineInv, OneCopy, Awaiting
<1>2. BoundaryInv /\ BaselineInv => BaselineAnswersRound
  <2> SUFFICES ASSUME BoundaryInv, BaselineInv, ~killed, Past("await") PROVE round \in copied
    BY DEF BaselineAnswersRound
  <2>1. step \in 0..Len(Path[mode]) /\ mode \in DOMAIN Path
    BY GateAssumption DEF BoundaryInv, TypeOK
  <2>2. PICK i \in 1..(step - 1) : Path[mode][i] = "await" BY DEF Past
  <2>3. Len(Path[mode]) \in Nat BY <2>1, PathFacts
  <2>4. i \in 1..Len(Path[mode]) BY <2>1, <2>3
  <2>5. i = AwaitAt[mode] BY <2>1, <2>2, <2>4, AwaitFacts
  <2>6. AwaitAt[mode] > 0 /\ step > AwaitAt[mode] BY <2>1, <2>3, <2>5
  <2> QED BY <2>6 DEF BaselineInv
<1> QED BY <1>1, <1>2, Invariance, BaselineStep, PTL DEF Spec
=============================================================================
