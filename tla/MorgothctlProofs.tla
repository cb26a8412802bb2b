--------------------------- MODULE MorgothctlProofs ---------------------------
(***************************************************************************)
(* Proofs about Morgothctl, for any number of processes.                   *)
(***************************************************************************)
EXTENDS Morgothctl, TLAPS

(***************************************************************************)
(* The inductive invariant: a process is owed an answer only while it waits*)
(* for it, and only by a server that exists.                               *)
(***************************************************************************)
OwedWait == \A c \in owed : at[c] = "waiting" /\ managed

IInv ==
    /\ TypeOK
    /\ OwedWait
    /\ StartIsAnswered
    /\ StopIsAnswered

------------------------------------------------------------------------------
(* The steps of a process, seen by the processes. *)

(***************************************************************************)
(* A command that returns leaves its process with a script or with none,   *)
(* and touches no other process.                                           *)
(***************************************************************************)
LEMMA LeaveStep ==
    ASSUME TypeOK, NEW c \in Clients, NEW code, at[c] # "done", Leave(c, code)
    PROVE  /\ todo' \in [Clients -> Scripts \cup {<<>>}]
           /\ at' \in [Clients -> Busy \cup {"done"}]
           /\ \A d \in Clients : at'[d] = "done" <=> todo'[d] = <<>>
           /\ \A d \in Clients \ {c} : at'[d] = at[d] /\ todo'[d] = todo[d]
           /\ owed' = owed \ {c}
<1>1. todo[c] \in Scripts
  BY DEF TypeOK
<1>2. CASE code = 0 /\ Tail(todo[c]) # <<>>
  <2>1. todo[c] = <<"stop", "start">>
    <3>1. /\ Tail(<<"start">>) = <<>>
          /\ Tail(<<"stop">>) = <<>>
          /\ Tail(<<"remove">>) = <<>>
      OBVIOUS
    <3> QED
      BY <1>1, <1>2, <3>1, Zenon DEF Scripts
  <2>2. Tail(todo[c]) = <<"start">>
    BY <2>1
  <2>3. /\ todo' = [todo EXCEPT ![c] = <<"start">>]
        /\ at' = [at EXCEPT ![c] = "begun"]
        /\ owed' = owed \ {c}
    BY <1>2, <2>1, <2>2 DEF Leave
  <2>4. <<"start">> \in Scripts /\ <<"start">> # <<>>
    BY DEF Scripts
  <2> QED
    BY <2>3, <2>4 DEF TypeOK, Busy
<1>3. CASE ~(code = 0 /\ Tail(todo[c]) # <<>>)
  <2>1. /\ todo' = [todo EXCEPT ![c] = <<>>]
        /\ at' = [at EXCEPT ![c] = "done"]
        /\ owed' = owed \ {c}
    BY <1>3 DEF Leave
  <2> QED
    BY <2>1 DEF TypeOK, Busy
<1> QED
  BY <1>2, <1>3

(***************************************************************************)
(* A stateChanged is never taken back, and reaches everybody whose wait it *)
(* ends.                                                                   *)
(***************************************************************************)
LEMMA EmitStep ==
    ASSUME TypeOK, NEW s \in States, Emit(s)
    PROVE  /\ signal' \in [Clients -> States \cup {None}]
           /\ \A c \in Clients : signal[c] # None => signal'[c] # None
           /\ \A c \in Clients :
                 at[c] \in {"subscribed", "waiting"} /\ Ends(c, s) => signal'[c] # None
  BY ClientAssumption DEF TypeOK, Emit, Subscribed, States

(***************************************************************************)
(* What the daemon does, called or not, keeps its debts: a process that is *)
(* owed an answer hears of the end of its wait, or can still expect it.    *)
(***************************************************************************)
Kept(c) ==
    /\ Executes(c, "start") => deadline' \/ signal'[c] # None
    /\ Executes(c, "stop") => state' \notin Down \/ signal'[c] # None

CoordinatorMoves ==
    \/ Coordinator!Launch \/ Coordinator!Refuse \/ Coordinator!RequestStop
    \/ Coordinator!Register \/ Coordinator!Expire \/ Coordinator!End

LEMMA CoordinatorStep ==
    ASSUME IInv, CoordinatorMoves, Emit(state')
    PROVE  /\ state' \in States
           /\ deadline' \in BOOLEAN
           /\ attended' \in BOOLEAN
           /\ signal' \in [Clients -> States \cup {None}]
           /\ \A c \in owed : Kept(c)
<1> USE DEF States
<1>1. /\ state' \in States
      /\ deadline' \in BOOLEAN
      /\ attended' \in BOOLEAN
  BY DEF IInv, TypeOK, CoordinatorMoves, Coordinator!Launch, Coordinator!Refuse,
         Coordinator!RequestStop, Coordinator!Register, Coordinator!Expire, Coordinator!End
<1>2. /\ signal' \in [Clients -> States \cup {None}]
      /\ \A c \in Clients : signal[c] # None => signal'[c] # None
      /\ \A c \in Clients :
            at[c] \in {"subscribed", "waiting"} /\ Ends(c, state') => signal'[c] # None
  BY <1>1, EmitStep DEF IInv
<1>3. ASSUME NEW c \in owed
      PROVE  Kept(c)
  <2>1. c \in Clients /\ at[c] = "waiting"
    BY <1>3 DEF IInv, TypeOK, OwedWait
  <2>2. Executes(c, "start") => deadline \/ signal[c] # None
    BY <1>3 DEF IInv, StartIsAnswered
  <2>3. Executes(c, "stop") => state \notin Down \/ signal[c] # None
    BY <1>3 DEF IInv, StopIsAnswered
  <2>4. Executes(c, "start") => deadline' \/ signal'[c] # None
    <3>1. deadline' = deadline \/ deadline' = TRUE \/ state' \in {"Running", "Crashed"}
      BY DEF CoordinatorMoves, Coordinator!Launch, Coordinator!Refuse,
             Coordinator!RequestStop, Coordinator!Register, Coordinator!Expire,
             Coordinator!End
    <3> QED
      BY <1>2, <2>1, <2>2, <3>1 DEF Ends
  <2>5. Executes(c, "stop") => state' \notin Down \/ signal'[c] # None
    BY <1>2, <2>1 DEF Ends, Down
  <2> QED
    BY <2>4, <2>5 DEF Kept
<1> QED
  BY <1>1, <1>2, <1>3

------------------------------------------------------------------------------
(* The invariant. *)

LEMMA InitInv == Init => IInv
  BY DEF Init, IInv, TypeOK, OwedWait, StartIsAnswered, StopIsAnswered, Coordinator!Init,
         States

(***************************************************************************)
(* A step that leaves the coordinator alone: the processes still owed      *)
(* something have not moved, and no signal of theirs is lost.              *)
(***************************************************************************)
LEMMA QuietStep ==
    ASSUME IInv, UNCHANGED coordinatorVars,
           owed' \subseteq owed,
           owed' # {} => managed',
           \A c \in owed' : /\ at'[c] = at[c]
                            /\ todo'[c] = todo[c]
                            /\ signal'[c] = signal[c]
    PROVE  OwedWait' /\ StartIsAnswered' /\ StopIsAnswered'
  BY DEF IInv, OwedWait, StartIsAnswered, StopIsAnswered, Executes, coordinatorVars

(***************************************************************************)
(* A step of the coordinator that the process "c" asked for, if any did.   *)
(***************************************************************************)
LEMMA StepInv == IInv /\ [Next]_vars => IInv'
<1> SUFFICES ASSUME IInv, [Next]_vars
             PROVE  IInv'
  OBVIOUS
<1> USE DEF IInv
<1>1. ASSUME NEW c \in Clients, NEW script \in Scripts, Invoke(c, script)
      PROVE  IInv'
  <2>1. script # <<>>
    BY DEF Scripts
  <2>2. TypeOK'
    BY <1>1, <2>1 DEF TypeOK, Invoke, Busy, coordinatorVars
  <2>3. c \notin owed
    BY <1>1 DEF Invoke, OwedWait
  <2>4. \A d \in owed' : at'[d] = at[d] /\ todo'[d] = todo[d] /\ signal'[d] = signal[d]
    BY <1>1, <2>3 DEF Invoke, TypeOK
  <2> QED
    BY <1>1, <2>2, <2>4, QuietStep DEF Invoke, OwedWait
<1>2. ASSUME NEW c \in Clients, Check(c) \/ Decline(c) \/ Subscribe(c)
      PROVE  IInv'
  <2>1. /\ at[c] \in {"begun", "found", "reading", "checked"}
        /\ UNCHANGED <<coordinatorVars, managed, signal>>
    BY <1>2 DEF Check, Find, FirstRead, SecondRead, Decline, Subscribe
  <2>2. c \notin owed
    BY <2>1 DEF OwedWait
  <2>3. \/ \E code : Leave(c, code)
        \/ \E place \in Busy : Goes(c, place)
    BY <1>2 DEF Check, Find, FirstRead, SecondRead, Decline, Subscribe, Goes, Busy
  <2>4. /\ TypeOK'
        /\ owed' \subseteq owed
        /\ \A d \in Clients \ {c} : at'[d] = at[d] /\ todo'[d] = todo[d]
    <3>1. CASE \E code : Leave(c, code)
      BY <2>1, <3>1, LeaveStep DEF TypeOK, coordinatorVars
    <3>2. CASE \E place \in Busy : Goes(c, place)
      BY <2>1, <3>2 DEF Goes, TypeOK, coordinatorVars, Busy
    <3> QED
      BY <2>3, <3>1, <3>2
  <2>5. \A d \in owed' : at'[d] = at[d] /\ todo'[d] = todo[d] /\ signal'[d] = signal[d]
    BY <2>1, <2>2, <2>4 DEF TypeOK
  <2> QED
    BY <2>1, <2>4, <2>5, QuietStep DEF OwedWait
<1>3. ASSUME NEW c \in Clients, Handle(c)
      PROVE  IInv'
  <2>1. /\ at[c] = "waiting"
        /\ Leave(c, Code(c, signal[c]))
        /\ signal' = [signal EXCEPT ![c] = None]
        /\ UNCHANGED <<coordinatorVars, managed>>
    BY <1>3 DEF Handle, Unheard
  <2>2. /\ TypeOK'
        /\ owed' = owed \ {c}
        /\ \A d \in Clients \ {c} : at'[d] = at[d] /\ todo'[d] = todo[d]
    BY <2>1, LeaveStep DEF TypeOK, coordinatorVars
  <2>3. \A d \in owed' : at'[d] = at[d] /\ todo'[d] = todo[d] /\ signal'[d] = signal[d]
    BY <2>1, <2>2 DEF TypeOK
  <2> QED
    BY <2>1, <2>2, <2>3, QuietStep DEF OwedWait
<1>4. ASSUME NEW c \in Clients, CallRemove(c)
      PROVE  IInv'
  <2>1. CASE managed
    <3>1. /\ Coordinator!Reset
          /\ todo' = [todo EXCEPT ![c] = <<>>]
          /\ at' = [at EXCEPT ![c] = "done"]
          /\ managed' = FALSE
          /\ owed' = {}
          /\ UNCHANGED signal
      BY <1>4, <2>1 DEF CallRemove, RemoveCalled, RemoveUnknown
    <3> QED
      BY <3>1 DEF TypeOK, OwedWait, StartIsAnswered, StopIsAnswered, Coordinator!Reset, States
  <2>2. CASE ~managed
    <3>1. /\ at[c] = "checked"
          /\ Leave(c, 4)
          /\ UNCHANGED <<coordinatorVars, managed, signal>>
      BY <1>4, <2>2 DEF CallRemove, RemoveCalled, RemoveUnknown
    <3>2. /\ TypeOK'
          /\ owed' = owed \ {c}
          /\ \A d \in Clients \ {c} : at'[d] = at[d] /\ todo'[d] = todo[d]
      BY <3>1, LeaveStep DEF TypeOK, coordinatorVars
    <3>3. \A d \in owed' : at'[d] = at[d] /\ todo'[d] = todo[d] /\ signal'[d] = signal[d]
      BY <3>1, <3>2 DEF TypeOK
    <3> QED
      BY <3>1, <3>2, <3>3, QuietStep DEF OwedWait
  <2> QED
    BY <2>1, <2>2
<1>5. ASSUME NEW c \in Clients, CallStart(c)
      PROVE  IInv'
  <2>1. CASE managed
    <3>1. /\ at[c] = "subscribed"
          /\ Executes(c, "start")
          /\ at' = [at EXCEPT ![c] = "waiting"]
          /\ UNCHANGED <<todo, managed>>
          /\ owed' = owed \cup {c}
          /\ Coordinator!Launch \/ Coordinator!Refuse
          /\ Emit(state')
      BY <1>5, <2>1 DEF CallStart, StartCalled, StartUnknown, Wait
    <3>2. /\ state' \in States
          /\ deadline' \in BOOLEAN
          /\ attended' \in BOOLEAN
          /\ signal' \in [Clients -> States \cup {None}]
          /\ \A d \in owed : Kept(d)
      BY <3>1, CoordinatorStep DEF CoordinatorMoves
    <3>3. TypeOK'
      BY <3>1, <3>2 DEF TypeOK, Busy
    <3>4. Kept(c)
      <4>1. signal'[c] # None \/ deadline'
        <5>1. CASE Coordinator!Launch
          BY <5>1 DEF Coordinator!Launch
        <5>2. CASE Coordinator!Refuse
          BY <3>1, <3>2, <5>2, EmitStep DEF Coordinator!Refuse, Ends
        <5> QED
          BY <3>1, <5>1, <5>2
      <4>2. ~Executes(c, "stop")
        BY <3>1 DEF Executes
      <4> QED
        BY <4>1, <4>2 DEF Kept
    <3> QED
      BY <2>1, <3>1, <3>2, <3>3, <3>4
      DEF OwedWait, StartIsAnswered, StopIsAnswered, Kept, Executes, TypeOK
  <2>2. CASE ~managed
    <3>1. /\ at[c] = "subscribed"
          /\ Leave(c, 4)
          /\ signal' = [signal EXCEPT ![c] = None]
          /\ UNCHANGED <<coordinatorVars, managed>>
      BY <1>5, <2>2 DEF CallStart, StartCalled, StartUnknown, Unheard
    <3>2. /\ TypeOK'
          /\ owed' = owed \ {c}
          /\ \A d \in Clients \ {c} : at'[d] = at[d] /\ todo'[d] = todo[d]
      BY <3>1, LeaveStep DEF TypeOK, coordinatorVars
    <3>3. \A d \in owed' : at'[d] = at[d] /\ todo'[d] = todo[d] /\ signal'[d] = signal[d]
      BY <3>1, <3>2 DEF TypeOK
    <3> QED
      BY <3>1, <3>2, <3>3, QuietStep DEF OwedWait
  <2> QED
    BY <2>1, <2>2
<1>6. ASSUME NEW c \in Clients, CallStop(c)
      PROVE  IInv'
  <2>1. /\ at[c] = "subscribed"
        /\ Executes(c, "stop")
        /\ at' = [at EXCEPT ![c] = "waiting"]
        /\ UNCHANGED <<todo, managed>>
    BY <1>6 DEF CallStop, StopCalled, StopIgnored, Wait
  <2>2. CASE managed /\ Coordinator!RequestStop /\ Emit(state') /\ owed' = owed \cup {c}
    <3>1. /\ state' \in States
          /\ deadline' \in BOOLEAN
          /\ attended' \in BOOLEAN
          /\ signal' \in [Clients -> States \cup {None}]
          /\ \A d \in owed : Kept(d)
      BY <2>2, CoordinatorStep DEF CoordinatorMoves
    <3>2. TypeOK'
      BY <2>1, <2>2, <3>1 DEF TypeOK, Busy
    <3>3. Kept(c)
      BY <2>1, <2>2 DEF Kept, Executes, Down, Coordinator!RequestStop
    <3> QED
      BY <2>1, <2>2, <3>1, <3>2, <3>3
      DEF OwedWait, StartIsAnswered, StopIsAnswered, Kept, Executes, TypeOK
  <2>3. CASE UNCHANGED <<coordinatorVars, signal, owed>>
    <3>1. c \notin owed
      BY <2>1 DEF OwedWait
    <3>2. TypeOK'
      BY <2>1, <2>3 DEF TypeOK, Busy, coordinatorVars
    <3>3. \A d \in owed' : at'[d] = at[d] /\ todo'[d] = todo[d] /\ signal'[d] = signal[d]
      BY <2>1, <2>3, <3>1 DEF TypeOK
    <3> QED
      BY <2>1, <2>3, <3>2, <3>3, QuietStep DEF OwedWait
  <2> QED
    BY <1>6, <2>2, <2>3 DEF CallStop, StopCalled, StopIgnored
<1>7. CASE Register \/ Expire \/ GameServerEnds
  <2>1. /\ CoordinatorMoves
        /\ Emit(state')
        /\ UNCHANGED <<managed, clientVars, owed>>
    BY <1>7 DEF Register, Expire, GameServerEnds, Reported, CoordinatorMoves
  <2>2. /\ state' \in States
        /\ deadline' \in BOOLEAN
        /\ attended' \in BOOLEAN
        /\ signal' \in [Clients -> States \cup {None}]
        /\ \A d \in owed : Kept(d)
    BY <2>1, CoordinatorStep
  <2>3. TypeOK'
    BY <2>1, <2>2 DEF TypeOK, clientVars
  <2> QED
    BY <2>1, <2>2, <2>3
    DEF OwedWait, StartIsAnswered, StopIsAnswered, Kept, Executes, clientVars
<1>8. CASE Add
  <2>1. TypeOK'
    BY <1>8 DEF Add, TypeOK, coordinatorVars, clientVars
  <2> QED
    BY <1>8, <2>1, QuietStep DEF Add, clientVars
<1>9. CASE UNCHANGED vars
  <2>1. TypeOK'
    BY <1>9 DEF vars, TypeOK, coordinatorVars, clientVars
  <2> QED
    BY <1>9, <2>1, QuietStep DEF vars, clientVars, OwedWait
<1> QED
  BY <1>1, <1>2, <1>3, <1>4, <1>5, <1>6, <1>7, <1>8, <1>9 DEF Next

LEMMA Invariance == Spec => []IInv
  BY InitInv, StepInv, PTL DEF Spec

------------------------------------------------------------------------------
(* Theorems. *)

(***************************************************************************)
(* The variables of the processes and of the coordinator keep their types. *)
(***************************************************************************)
THEOREM TypeCorrect == Spec => []TypeOK
<1>1. IInv => TypeOK
  BY DEF IInv
<1> QED
  BY Invariance, <1>1, PTL

(***************************************************************************)
(* No interleaving of any number of processes lets a start command miss the*)
(* decision it waits for (startcommand.cpp subscribes before it calls).    *)
(***************************************************************************)
THEOREM StartAnswered == Spec => []StartIsAnswered
<1>1. IInv => StartIsAnswered
  BY DEF IInv
<1> QED
  BY Invariance, <1>1, PTL

(***************************************************************************)
(* Nor does a stop command whose call was accepted miss the end it waits   *)
(* for.                                                                    *)
(***************************************************************************)
THEOREM StopAnswered == Spec => []StopIsAnswered
<1>1. IInv => StopIsAnswered
  BY DEF IInv
<1> QED
  BY Invariance, <1>1, PTL

------------------------------------------------------------------------------
(* The contract. *)

(***************************************************************************)
(* A coordinator that keeps the contract leaves no server Starting, Running*)
(* or ShuttingDown without an event ahead that ends it: what start and stop*)
(* of morgothctl wait for.                                                 *)
(***************************************************************************)
THEOREM ContractPromises == Coordinator!Spec => []Coordinator!Promise
<1> USE DEF Coordinator!Promise
<1>1. Coordinator!Init => Coordinator!Promise
  BY DEF Coordinator!Init
<1>2. Coordinator!Promise /\ [Coordinator!Next]_(Coordinator!vars)
          => Coordinator!Promise'
  BY DEF Coordinator!Next, Coordinator!vars, Coordinator!Launch, Coordinator!Refuse,
         Coordinator!RequestStop, Coordinator!Register, Coordinator!Expire,
         Coordinator!End, Coordinator!Reset
<1> QED
  BY <1>1, <1>2, PTL DEF Coordinator!Spec
==============================================================================
