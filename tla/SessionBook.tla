---------------------------- MODULE SessionBook ----------------------------
(***************************************************************************)
(* What logging in promises, with no tables, no provider and no handlers:   *)
(* a login through the browser opens one session at most, a lapsed login    *)
(* opens none, and a session belongs to whom it was opened for until it is  *)
(* over, which it stays.  LoginSessions implements this.                    *)
(***************************************************************************)

CONSTANTS Subjects,  \* who may log in
          Logins,    \* logins through the browser
          Tokens,    \* the names of sessions
          None       \* no session, no login, or nobody

VARIABLES left,  \* the logins that may still open a session
          book   \* for each token the login it was opened at and its holder

vars == <<left, book>>

Init == /\ left = Logins
        /\ book = [t \in Tokens |-> None]

(* A session is opened for u, at the login s, or at none by a device. *)
Open(t, s, u) == /\ book[t] = None
                 /\ s = None \/ s \in left
                 /\ left' = left \ {s}
                 /\ book' = [book EXCEPT ![t] = [login |-> s, holder |-> u]]

(* A session is over, by a logout or with its time. *)
End(t) == /\ book[t] # None /\ book[t].holder # None
          /\ book' = [book EXCEPT ![t].holder = None]
          /\ UNCHANGED left

(* Logins come to nothing: out of time, cut off, or lost with the process. *)
Lapse == /\ UNCHANGED book
         /\ left' \subseteq left

Next == \/ Lapse
        \/ \E t \in Tokens : End(t)
        \/ \E t \in Tokens, s \in Logins \cup {None}, u \in Subjects : Open(t, s, u)

Spec == Init /\ [][Next]_vars
=============================================================================
