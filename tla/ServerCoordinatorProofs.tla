----------------------- MODULE ServerCoordinatorProofs -----------------------
(***************************************************************************)
(* Proofs about ServerCoordinator, for any set of users, starters and      *)
(* interfaces, with and without tmux faults.                               *)
(***************************************************************************)
EXTENDS ServerCoordinator, TLAPS

------------------------------------------------------------------------------
(* What the tmux operations do to a session the wrapper can reach. *)

ReachableBy(s, u) == s \in {NoSession, Account(u)}

(***************************************************************************)
(* kill() of TmuxSessionWrapper leaves the session as it was or ends it,   *)
(* and ends it when tmux does what it is told.                             *)
(***************************************************************************)
LEMMA KillOutcome ==
    ASSUME NEW u \in Users, NEW s \in Sessions, ReachableBy(s, u),
           NEW k \in Kill(s, u)
    PROVE  /\ k.session \in {NoSession, s}
           /\ ~TmuxFaults => k.session = NoSession
  BY TmuxAssumption
     DEF ReachableBy, Kill, KillCommand, Exists, Command, Rejected, Outcome, Sessions, Account

(***************************************************************************)
(* create() makes a session only where there was none, and one it reports  *)
(* as created was made by it, under the wrapper's account.                 *)
(***************************************************************************)
LEMMA CreateOutcome ==
    ASSUME NEW u \in Users, NEW s \in Sessions, ReachableBy(s, u),
           NEW c \in Create(s, u)
    PROVE  /\ c.session \in Sessions
           /\ ReachableBy(c.session, u)
           /\ c.ok => s = NoSession /\ c.session = Account(u)
           /\ s # NoSession => c.session = s
  BY TmuxAssumption
     DEF ReachableBy, Create, Exists, Command, Rejected, Outcome, Sessions, Account

(***************************************************************************)
(* setUser() never moves the wrapper away from an existing session, and    *)
(* obeys when there is none and tmux answers.                              *)
(***************************************************************************)
LEMMA SetUserOutcome ==
    ASSUME NEW u \in Users, NEW s \in Sessions, ReachableBy(s, u),
           NEW wanted \in Users, NEW w \in SetUser(s, u, wanted)
    PROVE  /\ w \in Users
           /\ ReachableBy(s, w)
           /\ s = NoSession /\ ~TmuxFaults => w = wanted
  BY TmuxAssumption
     DEF ReachableBy, SetUser, Exists, Sessions, Account

------------------------------------------------------------------------------
(* The inductive invariant. *)

(***************************************************************************)
(* A launched srcds lives in the session; an interface the manager has     *)
(* given up is no longer pinged, and a subscription ends with its          *)
(* interface.                                                              *)
(***************************************************************************)
SrcdsHasSession == srcds => session # NoSession

IfaceLife ==
    /\ monitored \cap closing = {}
    /\ subscribed \subseteq monitored \cup closing

Claims ==
    /\ StartingHasDeadline
    /\ RunningIsAttended
    /\ ShutdownIsWatched

Clean ==
    /\ OfflineIsClean
    /\ RemovalLeavesNothing

IInv ==
    /\ TypeOK
    /\ SessionIsReachable
    /\ SrcdsHasSession
    /\ IfaceLife
    /\ Claims
    /\ Clean

(***************************************************************************)
(* The kill of a goodbye or of a failed ping.                              *)
(***************************************************************************)
LEMMA KillStep ==
    ASSUME TypeOK, SessionIsReachable, KillSession(session, user, srcds)
    PROVE  /\ session' \in {NoSession, session}
           /\ srcds' \in BOOLEAN
           /\ SrcdsHasSession'
           /\ ~TmuxFaults => session' = NoSession
<1>1. PICK k \in Kill(session, user) :
          /\ session' = k.session
          /\ srcds' = (srcds /\ k.session # NoSession)
  BY DEF KillSession
<1>2. /\ k.session \in {NoSession, session}
      /\ ~TmuxFaults => k.session = NoSession
  BY KillOutcome DEF TypeOK, SessionIsReachable, ReachableBy
<1> QED
  BY <1>1, <1>2 DEF SrcdsHasSession, TypeOK

(***************************************************************************)
(* start() either fails, and no starter begins to wait, or has launched    *)
(* srcds into a session it has just created.                               *)
(***************************************************************************)
Launched(st, wanted) ==
    /\ state' = "Starting"
    /\ waiting' = waiting \cup {st}
    /\ session = NoSession
    /\ session' = Account(user')
    /\ ~TmuxFaults => user' = wanted

Refused ==
    /\ state' = "Crashed"
    /\ waiting' = waiting

LEMMA StartStep ==
    ASSUME TypeOK, SessionIsReachable, SrcdsHasSession,
           NEW st \in Starters, NEW wanted \in Users, Start(st, wanted)
    PROVE  /\ error' \in Errors
           /\ user' \in Users
           /\ session' \in Sessions
           /\ srcds' \in BOOLEAN
           /\ SessionIsReachable'
           /\ SrcdsHasSession'
           /\ Refused \/ Launched(st, wanted)
<1> DEFINE u == user'
<1>1. /\ u \in SetUser(session, user, wanted)
      /\ \E c \in Create(session, u) :
            \/ /\ ~c.ok
               /\ Fail("UnableToCreateTmuxSession")
               /\ session' = c.session
               /\ UNCHANGED <<srcds, waiting>>
            \/ /\ c.ok
               /\ Fail("UnableToResolveUser")
               /\ session' = c.session
               /\ UNCHANGED <<srcds, waiting>>
            \/ /\ c.ok
               /\ Launch(st, c.session, u)
  BY DEF Start
<1>2. /\ u \in Users
      /\ ReachableBy(session, u)
      /\ session = NoSession /\ ~TmuxFaults => u = wanted
  BY <1>1, SetUserOutcome DEF TypeOK, SessionIsReachable, ReachableBy
<1>3. PICK c \in Create(session, u) :
            \/ /\ Fail("UnableToCreateTmuxSession") \/ Fail("UnableToResolveUser")
               /\ session' = c.session
               /\ UNCHANGED <<srcds, waiting>>
            \/ /\ c.ok
               /\ Launch(st, c.session, u)
  BY <1>1
<1>4. /\ c.session \in Sessions
      /\ ReachableBy(c.session, u)
      /\ c.ok => session = NoSession /\ c.session = Account(u)
      /\ session # NoSession => c.session = session
  BY <1>2, CreateOutcome DEF TypeOK
<1>5. Account(u) # NoSession
  BY <1>2, TmuxAssumption DEF Account
<1>6. CASE /\ Fail("UnableToCreateTmuxSession") \/ Fail("UnableToResolveUser")
           /\ session' = c.session
           /\ UNCHANGED <<srcds, waiting>>
  BY <1>2, <1>4, <1>6
     DEF Fail, Errors, TypeOK, SessionIsReachable, SrcdsHasSession, ReachableBy,
         Refused
<1>7. CASE c.ok /\ Launch(st, c.session, u)
  <2>1. CASE /\ Fail("UnableToRedirectTmuxOutput") \/ Fail("ServerExecutableFailed")
             /\ \E running \in BOOLEAN : KillSession(c.session, u, running)
             /\ UNCHANGED waiting
    <3>1. PICK running \in BOOLEAN, k \in Kill(c.session, u) :
              /\ session' = k.session
              /\ srcds' = (running /\ k.session # NoSession)
      BY <2>1 DEF KillSession
    <3>2. k.session \in {NoSession, c.session}
      BY <1>2, <1>4, KillOutcome
    <3> QED
      BY <1>2, <1>4, <2>1, <3>1, <3>2
         DEF Fail, Errors, SessionIsReachable, SrcdsHasSession, ReachableBy, Sessions,
             Refused
  <2>2. CASE /\ state' = "Starting"
             /\ session' = c.session
             /\ srcds' = TRUE
             /\ waiting' = waiting \cup {st}
             /\ UNCHANGED error
    BY <1>2, <1>4, <1>5, <1>7, <2>2
       DEF TypeOK, SessionIsReachable, SrcdsHasSession, ReachableBy, Launched
  <2> QED
    BY <1>7, <2>1, <2>2 DEF Launch, SendKeys
<1> QED
  BY <1>3, <1>6, <1>7

------------------------------------------------------------------------------
(* The invariant holds initially and every step preserves it. *)

LEMMA InitInv == Init => IInv
  BY TmuxAssumption
     DEF Init, IInv, TypeOK, SessionIsReachable, SrcdsHasSession, IfaceLife, Claims,
         StartingHasDeadline, RunningIsAttended, ShutdownIsWatched, Clean,
         OfflineIsClean, RemovalLeavesNothing, States, Errors, Sessions

LEMMA StepInv == IInv /\ [Next]_vars => IInv'
<1> SUFFICES ASSUME IInv, [Next]_vars PROVE IInv'
  OBVIOUS
<1> USE DEF IInv, Claims, Clean, IfaceLife, StartingHasDeadline, RunningIsAttended,
            ShutdownIsWatched, Attended, OfflineIsClean, RemovalLeavesNothing
<1>1. ASSUME NEW st \in Starters, NEW wanted \in Users, Start(st, wanted)
      PROVE  IInv'
  <2>1. UNCHANGED <<quitTyped, leaving, monitored, closing, subscribed, dropped, orphaned>>
    BY <1>1 DEF Start, ifaceVars
  <2>2. /\ error' \in Errors
        /\ user' \in Users
        /\ session' \in Sessions
        /\ srcds' \in BOOLEAN
        /\ SessionIsReachable'
        /\ SrcdsHasSession'
        /\ \/ state' = "Crashed" /\ waiting' = waiting
           \/ state' = "Starting" /\ waiting' = waiting \cup {st}
    BY <1>1, StartStep DEF Refused, Launched
  <2>3. TypeOK'
    BY <2>1, <2>2 DEF TypeOK, States
  <2> QED
    BY <2>1, <2>2, <2>3
<1>2. ASSUME Stop PROVE IInv'
  <2>1. quitTyped' \in BOOLEAN
    BY <1>2 DEF Stop, SendKeys
  <2> QED
    BY <1>2, <2>1
       DEF Stop, TypeOK, States, SessionIsReachable, SrcdsHasSession, tmuxVars,
           starterVars, ifaceVars
<1>3. ASSUME NEW g \in GameServers, GameServerOnline(g) PROVE IInv'
  BY <1>3
     DEF GameServerOnline, TypeOK, States, SessionIsReachable, SrcdsHasSession, tmuxVars
<1>4. ASSUME NEW g \in GameServers, UnsolicitedOnline(g) PROVE IInv'
  BY <1>4
     DEF UnsolicitedOnline, TypeOK, SessionIsReachable, SrcdsHasSession, tmuxVars,
         starterVars
<1>5. ASSUME NEW g \in GameServers, AboutToQuit(g) PROVE IInv'
  <2>1. /\ monitored' = monitored \ {g}
        /\ closing' = closing \cup {g}
        /\ UNCHANGED <<error, user, quitTyped, waiting, leaving, subscribed, dropped,
                       orphaned>>
    BY <1>5 DEF AboutToQuit, Forget, starterVars
  <2>2. CASE g \in subscribed
    <3>1. state' = "Offline" /\ KillSession(session, user, srcds)
      BY <1>5, <2>2 DEF AboutToQuit
    <3>2. /\ session' \in {NoSession, session}
          /\ srcds' \in BOOLEAN
          /\ SrcdsHasSession'
          /\ ~TmuxFaults => session' = NoSession
      BY <3>1, KillStep
    <3> QED
      BY <2>1, <3>1, <3>2 DEF TypeOK, States, Sessions, SessionIsReachable
  <2>3. CASE g \notin subscribed
    <3>1. UNCHANGED <<state, session, srcds>>
      BY <1>5, <2>3 DEF AboutToQuit
    <3> QED
      BY <2>1, <2>3, <3>1 DEF TypeOK, SessionIsReachable, SrcdsHasSession
  <2> QED
    BY <2>2, <2>3
<1>6. ASSUME NEW g \in GameServers, GameServerTimedOut(g) PROVE IInv'
  <2>1. /\ state' = "Crashed"
        /\ monitored' = monitored \ {g}
        /\ closing' = closing \cup {g}
        /\ UNCHANGED <<error, user, quitTyped, waiting, leaving, subscribed, dropped,
                       orphaned>>
    BY <1>6 DEF GameServerTimedOut, Forget, starterVars
  <2>2. /\ session' \in {NoSession, session}
        /\ srcds' \in BOOLEAN
        /\ SrcdsHasSession'
    BY <1>6, KillStep DEF GameServerTimedOut
  <2> QED
    BY <2>1, <2>2 DEF TypeOK, States, Sessions, SessionIsReachable
<1>7. ASSUME NEW g \in GameServers, IfaceDeleted(g) PROVE IInv'
  BY <1>7
     DEF IfaceDeleted, TypeOK, SessionIsReachable, SrcdsHasSession, tmuxVars, starterVars
<1>8. ASSUME NEW g \in GameServers, ConnectionDrops(g) PROVE IInv'
  BY <1>8
     DEF ConnectionDrops, TypeOK, SessionIsReachable, SrcdsHasSession, tmuxVars,
         starterVars
<1>9. ASSUME NEW st \in Starters, StartTimeout(st) PROVE IInv'
  BY <1>9
     DEF StartTimeout, Fail, TypeOK, States, Errors, SessionIsReachable,
         SrcdsHasSession, tmuxVars, ifaceVars
<1>10. ASSUME NEW st \in Starters, StarterDeleted(st) PROVE IInv'
  BY <1>10
     DEF StarterDeleted, TypeOK, SessionIsReachable, SrcdsHasSession, tmuxVars, ifaceVars
<1>11. ASSUME Remove PROVE IInv'
  <2>1. PICK k \in Kill(session, user) : orphaned' = (orphaned \/ k.session # NoSession)
    BY <1>11 DEF Remove, Destroy
  <2>2. ~TmuxFaults => k.session = NoSession
    BY KillOutcome DEF TypeOK, SessionIsReachable, ReachableBy
  <2>3. orphaned' \in BOOLEAN /\ RemovalLeavesNothing'
    BY <2>1, <2>2
  <2>4. /\ monitored' \subseteq monitored
        /\ closing' \subseteq closing
        /\ dropped' \subseteq dropped
    BY <1>11 DEF Remove, InterfacesGone
  <2> QED
    BY <1>11, <2>3, <2>4, TmuxAssumption
       DEF Remove, Destroy, TypeOK, States, Errors, Sessions, SessionIsReachable,
           SrcdsHasSession
<1>12. ASSUME ProcessExits PROVE IInv'
  BY <1>12
     DEF ProcessExits, TypeOK, SessionIsReachable, SrcdsHasSession, starterVars, ifaceVars
<1>13. ASSUME SessionEnds PROVE IInv'
  BY <1>13
     DEF SessionEnds, TypeOK, Sessions, SessionIsReachable, SrcdsHasSession, starterVars,
         ifaceVars
<1>14. CASE UNCHANGED vars
  BY <1>14
     DEF vars, TypeOK, SessionIsReachable, SrcdsHasSession, tmuxVars, starterVars,
         ifaceVars
<1> QED
  BY <1>1, <1>2, <1>3, <1>4, <1>5, <1>6, <1>7, <1>8, <1>9, <1>10, <1>11, <1>12, <1>13,
     <1>14 DEF Next

LEMMA Invariance == Spec => []IInv
  BY InitInv, StepInv, PTL DEF Spec

------------------------------------------------------------------------------
(* The invariants of the runs. *)

(***************************************************************************)
(* Every variable of the coordinator keeps its type.                       *)
(***************************************************************************)
THEOREM TypeCorrect == Spec => []TypeOK
  BY Invariance, PTL DEF IInv

(***************************************************************************)
(* tmux is always asked where the session is, even when its commands fail  *)
(* or overrun: TmuxSessionWrapper::setUser() and create() see to it.       *)
(***************************************************************************)
THEOREM SessionReachable == Spec => []SessionIsReachable
  BY Invariance, PTL DEF IInv

(***************************************************************************)
(* No server is Starting without a starter whose timer will decide it.     *)
(***************************************************************************)
THEOREM StartingDeadline == Spec => []StartingHasDeadline
  BY Invariance, PTL DEF IInv, Claims

(***************************************************************************)
(* No server is Running without an interface that is pinged and heard.     *)
(***************************************************************************)
THEOREM RunningAttended == Spec => []RunningIsAttended
  BY Invariance, PTL DEF IInv, Claims

(***************************************************************************)
(* No server is ShuttingDown without an event ahead that ends it.          *)
(***************************************************************************)
THEOREM ShutdownWatched == Spec => []ShutdownIsWatched
  BY Invariance, PTL DEF IInv, Claims

(***************************************************************************)
(* While tmux obeys, onGameServerStopped() leaves no session behind.       *)
(***************************************************************************)
THEOREM OfflineClean == Spec => []OfflineIsClean
  BY Invariance, PTL DEF IInv, Clean

(***************************************************************************)
(* While tmux obeys, no session outlives the coordinator it belongs to.    *)
(***************************************************************************)
THEOREM RemovalClean == Spec => []RemovalLeavesNothing
  BY Invariance, PTL DEF IInv, Clean

------------------------------------------------------------------------------
(* What a launch may do. *)

(***************************************************************************)
(* Only start() makes a starter wait.                                      *)
(***************************************************************************)
LEMMA OnlyStartWaits ==
    ASSUME [Next]_vars, NEW st \in Starters, st \in waiting' \ waiting
    PROVE  \E wanted \in Users : Start(st, wanted)
<1>1. ASSUME NEW other \in Starters, NEW wanted \in Users, Start(other, wanted)
      PROVE  \E w \in Users : Start(st, w)
  <2>1. waiting' \subseteq waiting \cup {other}
    BY <1>1 DEF Start, Launch
  <2> QED
    BY <1>1, <2>1
<1> QED
  BY <1>1
     DEF Next, vars, Stop, GameServerOnline, UnsolicitedOnline, AboutToQuit,
         GameServerTimedOut, IfaceDeleted, ConnectionDrops, StartTimeout, StarterDeleted,
         Remove, Destroy, ProcessExits, SessionEnds, starterVars

(***************************************************************************)
(* However start() calls overlap, the launch command only reaches a session*)
(* that this very call has created.                                        *)
(***************************************************************************)
THEOREM LaunchNewSession == Spec => LaunchesIntoNewSession
<1>1. IInv /\ [Next]_vars =>
          [\A st \in Starters :
               st \in waiting' \ waiting =>
                   session = NoSession /\ ~srcds /\ session' = Account(user')]_vars
  <2> SUFFICES ASSUME IInv, [Next]_vars, NEW st \in Starters, st \in waiting' \ waiting
               PROVE  session = NoSession /\ ~srcds /\ session' = Account(user')
    OBVIOUS
  <2>1. PICK wanted \in Users : Start(st, wanted)
    BY OnlyStartWaits
  <2>2. Launched(st, wanted)
    BY <2>1, StartStep DEF IInv, Refused
  <2> QED
    BY <2>2 DEF Launched, IInv, SrcdsHasSession
<1> QED
  BY <1>1, Invariance, PTL DEF Spec, LaunchesIntoNewSession

(***************************************************************************)
(* While tmux obeys, srcds runs as the user that start() was to use.       *)
(***************************************************************************)
THEOREM LaunchAsConfigured == Spec => LaunchesAsConfigured
<1>1. IInv /\ [Next]_vars =>
          [\A st \in Starters, wanted \in Users :
               ~TmuxFaults /\ Start(st, wanted) /\ st \in waiting' =>
                   user' = wanted]_vars
  <2> SUFFICES ASSUME IInv, NEW st \in Starters, NEW wanted \in Users,
                      ~TmuxFaults, Start(st, wanted), st \in waiting'
               PROVE  user' = wanted
    OBVIOUS
  <2>1. st \notin waiting
    BY DEF Start
  <2> QED
    BY <2>1, StartStep DEF IInv, Refused, Launched
<1> QED
  BY <1>1, Invariance, PTL DEF Spec, LaunchesAsConfigured

------------------------------------------------------------------------------
(* The coordinator implements its contract. *)

LEMMA InitLifecycle == Init => Lifecycle!Init
  BY DEF Init, Lifecycle!Init, Attended

(***************************************************************************)
(* Every step of the coordinator is a step of the contract, or changes     *)
(* nothing that the contract speaks of.                                    *)
(***************************************************************************)
LEMMA StepLifecycle == IInv /\ [Next]_vars => [Lifecycle!Next]_(Lifecycle!vars)
<1> SUFFICES ASSUME IInv, [Next]_vars PROVE [Lifecycle!Next]_(Lifecycle!vars)
  OBVIOUS
<1> USE DEF Attended, Lifecycle!vars, Lifecycle!Next
<1>1. ASSUME NEW st \in Starters, NEW wanted \in Users, Start(st, wanted)
      PROVE  Lifecycle!Launch \/ Lifecycle!Refuse
  <2>1. Refused \/ Launched(st, wanted)
    BY <1>1, StartStep DEF IInv
  <2>2. UNCHANGED <<subscribed, monitored>>
    BY <1>1 DEF Start, ifaceVars
  <2> QED
    BY <2>1, <2>2 DEF Refused, Launched, Lifecycle!Launch, Lifecycle!Refuse
<1>2. ASSUME Stop PROVE Lifecycle!RequestStop
  BY <1>2 DEF Stop, Lifecycle!RequestStop, starterVars, ifaceVars
<1>3. ASSUME NEW g \in GameServers, GameServerOnline(g) PROVE Lifecycle!Register
  BY <1>3 DEF GameServerOnline, Lifecycle!Register
<1>4. ASSUME NEW g \in GameServers, UnsolicitedOnline(g) PROVE UNCHANGED Lifecycle!vars
  BY <1>4 DEF UnsolicitedOnline, IInv, IfaceLife, starterVars
<1>5. ASSUME NEW g \in GameServers, AboutToQuit(g)
      PROVE  Lifecycle!End \/ UNCHANGED Lifecycle!vars
  BY <1>5 DEF AboutToQuit, Forget, Lifecycle!End, starterVars
<1>6. ASSUME NEW g \in GameServers, GameServerTimedOut(g) PROVE Lifecycle!End
  BY <1>6 DEF GameServerTimedOut, Forget, Lifecycle!End, starterVars
<1>7. ASSUME NEW g \in GameServers, IfaceDeleted(g) PROVE UNCHANGED Lifecycle!vars
  BY <1>7 DEF IfaceDeleted, IInv, IfaceLife, starterVars
<1>8. ASSUME NEW g \in GameServers, ConnectionDrops(g) PROVE UNCHANGED Lifecycle!vars
  BY <1>8 DEF ConnectionDrops, starterVars
<1>9. ASSUME NEW st \in Starters, StartTimeout(st) PROVE Lifecycle!Expire
  BY <1>9 DEF StartTimeout, Fail, Lifecycle!Expire, ifaceVars
<1>10. ASSUME NEW st \in Starters, StarterDeleted(st) PROVE UNCHANGED Lifecycle!vars
  BY <1>10 DEF StarterDeleted, ifaceVars
<1>11. ASSUME Remove PROVE Lifecycle!Reset
  BY <1>11 DEF Remove, Destroy, Lifecycle!Reset
<1>12. ASSUME ProcessExits \/ SessionEnds PROVE UNCHANGED Lifecycle!vars
  BY <1>12 DEF ProcessExits, SessionEnds, starterVars, ifaceVars
<1>13. CASE UNCHANGED vars
  BY <1>13 DEF vars, starterVars, ifaceVars
<1> QED
  BY <1>1, <1>2, <1>3, <1>4, <1>5, <1>6, <1>7, <1>8, <1>9, <1>10, <1>11, <1>12, <1>13
     DEF Next

(***************************************************************************)
(* What clients see of a coordinator is what ServerLifecycle allows.       *)
(***************************************************************************)
THEOREM ImplementsLifecycle == Spec => Lifecycle!Spec
  BY InitLifecycle, StepLifecycle, Invariance, PTL DEF Spec, Lifecycle!Spec
==============================================================================
