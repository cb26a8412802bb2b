----------------------------- MODULE TmuxSession -----------------------------
(***************************************************************************)
(* The tmux session of one coordinator, as TmuxSessionWrapper sees it.     *)
(* The wrapper keeps a fixed session name and the user whose tmux server   *)
(* it talks to; whether the session exists is known to tmux alone and is   *)
(* asked again before every command.                                       *)
(*                                                                         *)
(* The session is NoSession or the account whose tmux server holds it.  An *)
(* operation is the set of its possible outcomes.  A tmux command either   *)
(* answers, and then truthfully, or (TmuxFaults) fails or overruns the one *)
(* second it is given: the wrapper then reports failure while the command  *)
(* may or may not have taken effect.                                       *)
(***************************************************************************)
CONSTANTS
    Users,          \* the values of org.morgoth.Server.user
    OwnUser,        \* no user configured: tmux runs as the daemon itself
    Unresolvable,   \* the users getpwnam() does not know
    NoSession,
    TmuxFaults      \* whether a tmux command may fail or overrun its second

ASSUME TmuxAssumption ==
    /\ OwnUser \in Users
    /\ Unresolvable \subseteq Users \ {OwnUser}
    /\ NoSession \notin Users
    /\ TmuxFaults \in BOOLEAN

Sessions == Users \cup {NoSession}

(***************************************************************************)
(* The account a tmux command of this user runs under: a user that does    *)
(* not resolve is only logged, and the child keeps the daemon's account.   *)
(***************************************************************************)
Account(user) == IF user \in Unresolvable THEN OwnUser ELSE user

(***************************************************************************)
(* has-session: the exit status of a command that overran, or that could   *)
(* not be started, still reads "normal exit, code 0".                      *)
(***************************************************************************)
Exists(session, user) ==
    {e \in BOOLEAN : e # (session = Account(user)) => TmuxFaults /\ e}

(***************************************************************************)
(* A command that takes the session from "before" to "after".              *)
(***************************************************************************)
Outcome == [session : Sessions, ok : BOOLEAN]

Command(before, after) ==
    {o \in Outcome : IF o.ok THEN o.session = after
                             ELSE TmuxFaults /\ o.session \in {before, after}}

Rejected(session) == {o \in Outcome : ~o.ok /\ o.session = session}

\* Mutated form: create() without its own exists().
CreateUnchecked(session, user) == Command(session, Account(user))

Create(session, user) ==
    UNION {IF exists THEN Rejected(session) ELSE Command(session, Account(user)) :
               exists \in Exists(session, user)}

(***************************************************************************)
(* Killing a session that is not there succeeds, unless has-session misled *)
(* the wrapper: kill-session then fails.                                   *)
(***************************************************************************)
KillCommand(session, user) ==
    IF session = Account(user) THEN Command(session, NoSession) ELSE Rejected(session)

Kill(session, user) ==
    UNION {IF exists THEN KillCommand(session, user)
                     ELSE {[session |-> session, ok |-> TRUE]} :
               exists \in Exists(session, user)}

RedirectOutput(session, user) ==
    {ok \in BOOLEAN : IF session = Account(user) THEN ok \/ TmuxFaults ELSE ~ok}

(***************************************************************************)
(* "typed": the keys reached the pane of the session.                      *)
(***************************************************************************)
SendKeys(session, user) ==
    {o \in [typed : BOOLEAN, ok : BOOLEAN] :
        IF session = Account(user) THEN IF o.ok THEN o.typed ELSE TmuxFaults
                                   ELSE ~o.ok /\ ~o.typed}

\* Mutated forms: setUser() without its exists(), and without its assignment.
SetUserUnchecked(session, user, wanted) == {wanted}

SetUserForgotten(session, user, wanted) == {user}

(***************************************************************************)
(* The users the wrapper may be left with when asked to change to "wanted".*)
(***************************************************************************)
SetUser(session, user, wanted) ==
    IF wanted = user
    THEN {user}
    ELSE {IF exists THEN user ELSE wanted : exists \in Exists(session, user)}
==============================================================================
