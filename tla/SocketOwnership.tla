--------------------------- MODULE SocketOwnership ---------------------------
(***************************************************************************)
(* What the Java binding promises to the native SCTP socket it wraps.      *)
(*                                                                         *)
(* A dcsctp socket is not thread safe, and it is destroyed explicitly.  It *)
(* must be used by one thread at a time, only between its construction and *)
(* its destruction, and the thread that destroys it must be its only user  *)
(* and its last one.  NativeSocket shows how the monitors, references and  *)
(* the cleaner of the Java side implement this contract.                   *)
(***************************************************************************)
CONSTANTS
  Sockets,   \* the native sockets
  Users,     \* the threads that may execute a socket's native code
  NoUser     \* not in Users: the user of a socket nobody is executing

VARIABLES
  life,      \* life[s]: "unborn", "alive" or "freed"
  user       \* user[s]: who executes native code of s, or NoUser

vars == <<life, user>>

TypeOK ==
  /\ life \in [Sockets -> {"unborn", "alive", "freed"}]
  /\ user \in [Sockets -> Users \cup {NoUser}]

Init ==
  /\ life = [s \in Sockets |-> "unborn"]
  /\ user = [s \in Sockets |-> NoUser]

(* The socket is constructed and published. *)
Open(s) ==
  /\ life[s] = "unborn"
  /\ life' = [life EXCEPT ![s] = "alive"]
  /\ UNCHANGED user

(* A thread becomes the only user of a live socket. *)
Take(u, s) ==
  /\ life[s] = "alive"
  /\ user[s] = NoUser
  /\ user' = [user EXCEPT ![s] = u]
  /\ UNCHANGED life

(* The user leaves the socket. *)
Leave(s) ==
  /\ life[s] = "alive"
  /\ user[s] # NoUser
  /\ user' = [user EXCEPT ![s] = NoUser]
  /\ UNCHANGED life

(* The user destroys the socket; nobody uses it again. *)
Free(s) ==
  /\ life[s] = "alive"
  /\ user[s] # NoUser
  /\ life' = [life EXCEPT ![s] = "freed"]
  /\ user' = [user EXCEPT ![s] = NoUser]

Next ==
  \E s \in Sockets :
    \/ Open(s)
    \/ \E u \in Users : Take(u, s)
    \/ Leave(s)
    \/ Free(s)

Spec == Init /\ [][Next]_vars
=============================================================================
