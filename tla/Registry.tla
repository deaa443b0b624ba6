------------------------------- MODULE Registry -------------------------------
(***************************************************************************)
(* The relay's registered connections (apps/relay/src/features/relay/      *)
(* registry.ts): at most one socket per device of a user, and a second     *)
(* index by socket.  A registry is a pair of the two maps; None is the     *)
(* absence of an entry.                                                    *)
(***************************************************************************)
CONSTANTS User, Device, Socket, None

ASSUME NoneIsNothing == None \notin User \cup Device \cup Socket \cup [user: User, device: Device]

Identity == [user: User, device: Device]

Registries == [users: [User -> [Device -> Socket \cup {None}]],
               sockets: [Socket -> Identity \cup {None}]]

EmptyRegistry == [users   |-> [u \in User |-> [d \in Device |-> None]],
                  sockets |-> [s \in Socket |-> None]]

GetBySocket(registry, s) == registry.sockets[s]

GetConnection(registry, u, d) == registry.users[u][d]

(* Every connected device of a user.                                       *)
GetUserConnections(registry, u) == {registry.users[u][d] : d \in Device} \ {None}

\* Mutants: the replaced connection stays in the second index; closing a
\* socket leaves its device registered.
AddKeepsReplaced(registry, s, id) ==
  [users   |-> [registry.users EXCEPT ![id.user][id.device] = s],
   sockets |-> [registry.sockets EXCEPT ![s] = id]]

RemoveOnlySocket(registry, s) == [registry EXCEPT !.sockets[s] = None]

(* add: the newer connection of a device replaces the older one.           *)
Add(registry, s, id) ==
  LET replaced == GetConnection(registry, id.user, id.device)
  IN  [users   |-> [registry.users EXCEPT ![id.user][id.device] = s],
       sockets |-> [t \in Socket |-> IF t = s THEN id
                                     ELSE IF t = replaced THEN None
                                     ELSE registry.sockets[t]]]

(* removeBySocket: exactly what this socket registered as.                 *)
RemoveBySocket(registry, s) ==
  LET id == GetBySocket(registry, s)
  IN  IF id = None THEN registry
      ELSE [users   |-> [registry.users EXCEPT ![id.user][id.device] = None],
            sockets |-> [registry.sockets EXCEPT ![s] = None]]

(* "Invariant: every connection in #users is in #sockets and vice versa."  *)
Consistent(registry) ==
  /\ \A s \in Socket : LET id == GetBySocket(registry, s)
                       IN  id # None => GetConnection(registry, id.user, id.device) = s
  /\ \A u \in User, d \in Device :
       LET s == GetConnection(registry, u, d)
       IN  s # None => GetBySocket(registry, s) = [user |-> u, device |-> d]
===============================================================================
