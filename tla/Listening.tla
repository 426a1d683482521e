------------------------------ MODULE Listening ------------------------------
(***************************************************************************)
(* The start of the server: PollServer::setConfig opens one socket per     *)
(* port of the configuration, lowest port first; the first failure throws, *)
(* init_start_webserv gives up and the process ends without serving.       *)
(* How socket(), setsockopt(), fcntl(), getaddrinfo(), bind(), listen() or *)
(* epoll_ctl() fail is not told apart.                                     *)
(***************************************************************************)
EXTENDS Config

VARIABLE listening  \* _server_sockets: the address each open port is bound to

ListeningInit == listening = <<>>

(* getUniqueServers: the first server with a port decides its address.     *)
(* Seeded fault: a server is only looked at if its port follows the last.  *)
Ports_Ascending ==
    {tree[s].port : s \in {t \in Servers :
        \A r \in Servers : r < t => tree[r].port <= tree[t].port}}
Ports == {tree[s].port : s \in Servers}
AddressFor(port) ==
    LET On == {s \in Servers : tree[s].port = port} IN
    tree[CHOOSE s \in On : \A t \in On : s <= t].addr

IsNext(port) ==
    /\ port \in Ports \ DOMAIN listening
    /\ \A p \in Ports \ DOMAIN listening : port <= p

(* One turn of initializeServerSockets.                                    *)
OpenSocket ==
    /\ stage = "parsed"
    /\ \E p \in Ports :
          /\ IsNext(p)
          /\ listening' = [q \in DOMAIN listening \cup {p} |->
                              IF q = p THEN AddressFor(p) ELSE listening[q]]
    /\ UNCHANGED <<stage, tree>>

OpenFails ==
    /\ stage = "parsed" /\ Ports \ DOMAIN listening # {}
    /\ stage' = "unserved" /\ listening' = <<>>
    /\ UNCHANGED tree

AllOpen ==
    /\ stage = "parsed" /\ Ports \subseteq DOMAIN listening
    /\ stage' = "serving"
    /\ UNCHANGED <<tree, listening>>

ListeningNext == OpenSocket \/ OpenFails \/ AllOpen
=============================================================================
