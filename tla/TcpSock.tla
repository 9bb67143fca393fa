------------------------------ MODULE TcpSock -------------------------------
(***************************************************************************)
(* What the calls of project/lib/tcpsock.c allocate and give back: the     *)
(* tcpsock structure, the string with the address, and the descriptor.     *)
(* Each call is one action; the system call or malloc at which it stops is *)
(* its choice among MayFail.  The bytes that tcp_send and tcp_receive move *)
(* are the subject of Session.                                             *)
(***************************************************************************)
EXTENDS FiniteSets

CONSTANTS
  Handles,   (* the variables of type tcpsock_t* of the program             *)
  Cells,     (* what malloc can return for a tcpsock                        *)
  Strings,   (* and for the address of a peer                               *)
  Fds,       (* the descriptors the process may have open                   *)
  NULL,
  MayFail    (* steps that may fail; "reset": a peer may reset a connection *)

ASSUME TcpSockAssumption ==
  /\ NULL \notin Cells \cup Strings \cup Fds
  /\ MayFail \subseteq {"port", "malloc", "socket", "bind", "listen", "aton", "connect",
                        "accept", "address", "reset"}

VARIABLES
  handle,           (* the value of each variable                           *)
  heap,             (* the structures allocated                             *)
  cookie, sd, ip,   (* their fields; cookie: it is MAGIC_COOKIE             *)
  strings,          (* the address strings allocated                        *)
  open,             (* the descriptors the kernel keeps for the process     *)
  reset,            (* those whose connection the peer has reset            *)
  returned            (* what the last call returned                          *)

fields == <<cookie, sd, ip>>
sockVars == <<handle, heap, fields, strings, open, reset, returned>>

Results == {"NO_ERROR", "SOCKET_ERROR", "ADDRESS_ERROR", "SOCKOP_ERROR", "MEMORY_ERROR"}

SockTypeOK ==
  /\ handle \in [Handles -> Cells \cup {NULL}]
  /\ heap \in SUBSET Cells /\ strings \in SUBSET Strings
  /\ reset \in SUBSET open /\ open \in SUBSET Fds
  /\ cookie \in [Cells -> BOOLEAN]
  /\ sd \in [Cells -> Fds \cup {NULL}] /\ ip \in [Cells -> Strings \cup {NULL}]
  /\ returned \in Results

SockInit ==
  /\ handle = [h \in Handles |-> NULL]
  /\ heap = {} /\ strings = {} /\ open = {} /\ reset = {}
  /\ cookie = [c \in Cells |-> FALSE]
  /\ sd = [c \in Cells |-> NULL] /\ ip = [c \in Cells |-> NULL]
  /\ returned = "NO_ERROR"

(* The call stops at one of the steps and has nothing to give back.        *)
StopsAt(steps, code) ==
  /\ steps \cap MayFail # {}
  /\ returned' = code
  /\ UNCHANGED <<handle, heap, fields, strings, open, reset>>

(* It stops after a descriptor was made: free(s) does not close it.        *)
StopsWithDescriptor(steps, code) ==
  /\ steps \cap MayFail # {}
  /\ \E f \in Fds \ open : open' = open \cup {f}
  /\ returned' = code
  /\ UNCHANGED <<handle, heap, fields, strings, reset>>

(* The variable gets a structure with a descriptor and an address, which   *)
(* is NULL for a server.                                                   *)
Binds(h, addresses) ==
  /\ \E c \in Cells \ heap, f \in Fds \ open, s \in addresses :
       /\ handle' = [handle EXCEPT ![h] = c]
       /\ heap' = heap \cup {c} /\ open' = open \cup {f}
       /\ strings' = strings \cup ({s} \ {NULL})
       /\ cookie' = [cookie EXCEPT ![c] = TRUE]
       /\ sd' = [sd EXCEPT ![c] = f] /\ ip' = [ip EXCEPT ![c] = s]
  /\ returned' = "NO_ERROR"
  /\ UNCHANGED reset

PassiveOpen(h) ==
  /\ handle[h] = NULL
  /\ \/ StopsAt({"port"}, "ADDRESS_ERROR")
     \/ StopsAt({"malloc"}, "MEMORY_ERROR")
     \/ StopsAt({"socket"}, "SOCKOP_ERROR")
     \/ StopsWithDescriptor({"bind", "listen"}, "SOCKOP_ERROR")
     \/ Binds(h, {NULL})

ActiveOpen(h) ==
  /\ handle[h] = NULL
  /\ \/ StopsAt({"port"}, "ADDRESS_ERROR")
     \/ StopsAt({"malloc"}, "MEMORY_ERROR")
     \/ StopsAt({"socket"}, "SOCKOP_ERROR")
     \/ StopsWithDescriptor({"aton"}, "ADDRESS_ERROR")
     \/ StopsWithDescriptor({"connect"}, "SOCKOP_ERROR")
     \/ StopsWithDescriptor({"address"}, "MEMORY_ERROR")
     \/ Binds(h, Strings \ strings)

(* tcp_wait_for_connection on the socket of server.                        *)
WaitForConnection(server, h) ==
  /\ handle[h] = NULL
  /\ \/ /\ handle[server] = NULL
        /\ returned' = "SOCKET_ERROR"
        /\ UNCHANGED <<handle, heap, fields, strings, open, reset>>
     \/ /\ handle[server] # NULL /\ ip[handle[server]] = NULL
        /\ \/ StopsAt({"malloc"}, "MEMORY_ERROR")
           \/ StopsAt({"accept"}, "SOCKOP_ERROR")
           \/ StopsWithDescriptor({"address"}, "MEMORY_ERROR")
           \/ Binds(h, Strings \ strings)

(* Mutant: the variable of the caller keeps the address of the structure.  *)
CloseKeepsPointer(h) ==
  LET c == handle[h] IN
  /\ c # NULL
  /\ strings' = strings \ {ip[c]}
  /\ open' = open \ {sd[c]} /\ reset' = reset \ {sd[c]}
  /\ cookie' = [cookie EXCEPT ![c] = FALSE]
  /\ sd' = [sd EXCEPT ![c] = NULL] /\ ip' = [ip EXCEPT ![c] = NULL]
  /\ heap' = heap \ {c}
  /\ returned' = "NO_ERROR"
  /\ UNCHANGED handle

(* Mutant: close is not called when shutdown has succeeded.                *)
CloseShutdownOnly(h) ==
  LET c == handle[h] IN
  /\ c # NULL
  /\ strings' = strings \ {ip[c]} /\ UNCHANGED <<open, reset>>
  /\ cookie' = [cookie EXCEPT ![c] = FALSE]
  /\ sd' = [sd EXCEPT ![c] = NULL] /\ ip' = [ip EXCEPT ![c] = NULL]
  /\ heap' = heap \ {c} /\ handle' = [handle EXCEPT ![h] = NULL]
  /\ returned' = "NO_ERROR"

(* tcp_close.  shutdown fails on a connection that was reset, and then     *)
(* close is not called.                                                    *)
CloseSocket(h) ==
  LET c == handle[h]
      closed == IF sd[c] \in reset THEN {} ELSE {sd[c]}
  IN
  /\ c # NULL
  /\ strings' = strings \ {ip[c]}
  /\ open' = open \ closed /\ UNCHANGED reset
  /\ cookie' = [cookie EXCEPT ![c] = FALSE]
  /\ sd' = [sd EXCEPT ![c] = NULL] /\ ip' = [ip EXCEPT ![c] = NULL]
  /\ heap' = heap \ {c} /\ handle' = [handle EXCEPT ![h] = NULL]
  /\ returned' = "NO_ERROR"

CloseNothing(h) ==
  /\ handle[h] = NULL
  /\ returned' = "SOCKET_ERROR"
  /\ UNCHANGED <<handle, heap, fields, strings, open, reset>>

(* A peer resets a connection of the program.                              *)
PeerResets(c) ==
  /\ "reset" \in MayFail
  /\ c \in heap /\ ip[c] # NULL
  /\ reset' = reset \cup {sd[c]}
  /\ UNCHANGED <<handle, heap, fields, strings, open, returned>>

SockNext ==
  \/ \E h \in Handles :
       \/ PassiveOpen(h) \/ ActiveOpen(h) \/ CloseSocket(h) \/ CloseNothing(h)
       \/ \E server \in Handles \ {h} : WaitForConnection(server, h)
  \/ \E c \in Cells : PeerResets(c)

SockSpec == SockInit /\ [][SockNext]_sockVars

-----------------------------------------------------------------------------
(* On every path through the calls, the failing ones included, a structure *)
(* or an address string stays allocated exactly as long as one variable of *)
(* the program leads to it: nothing is lost and no variable dangles.  And  *)
(* a structure the program can reach carries the cookie and a descriptor   *)
(* that is open and that no other structure uses.                          *)
ResourcesAccounted ==
  /\ SockTypeOK
  /\ heap = {handle[h] : h \in Handles} \ {NULL}
  /\ \A g, h \in Handles : handle[g] = handle[h] => g = h \/ handle[g] = NULL
  /\ strings = {ip[c] : c \in heap} \ {NULL}
  /\ \A c, d \in heap : ip[c] = ip[d] => c = d \/ ip[c] = NULL
  /\ \A c \in heap : /\ cookie[c] /\ sd[c] \in open
                     /\ \A d \in heap : sd[c] = sd[d] => c = d

(* The descriptors that stay open although no socket of the program has    *)
(* them.                                                                   *)
Lost == open \ {sd[c] : c \in heap}

(* A call that reports success loses no descriptor, save tcp_close on a    *)
(* connection that its peer has reset; a call that fails loses at most the *)
(* one it made itself, and no descriptor of another socket.                *)
LeaksExplained ==
  [][/\ returned' = "NO_ERROR" => Lost' \subseteq Lost \cup reset
     /\ Lost' \ Lost # {} /\ returned' # "NO_ERROR" => Lost' \ Lost = open' \ open]_sockVars

(* "allocated resources are freed": no descriptor stays open that no       *)
(* socket of the program has.                                              *)
DescriptorsFreed == Lost = {}
=============================================================================
