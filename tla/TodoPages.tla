------------------------------ MODULE TodoPages ------------------------------
(***************************************************************************)
(* The Alice-and-Bob demonstration pages: two personas in one browser tab, *)
(* each with a node, an OrbitDB instance and a todo database of its own,   *)
(* and a reset that may be pressed at any moment.  PageFunctions says what *)
(* each button asks for and which awaits its function makes; an action     *)
(* here is what happens between two awaits.  A function that is under way  *)
(* holds its persona's running flag; cleanup() looks at none of them.      *)
(*                                                                         *)
(* One cleanup runs at a time (all pages but one leave its button on).     *)
(* Todos are two: those Alice's button adds, and the one Bob's adds.       *)
(***************************************************************************)
EXTENDS Naturals, FiniteSets, PageFunctions

CONSTANTS MaxNodes, MaxCleanups, MaxPageFaults      \* bounds

ASSUME PagesAssumption == {MaxNodes, MaxCleanups, MaxPageFaults} \subseteq Nat

Node  == 1..MaxNodes
Actor == Persona \cup {"cleanup"}
NoNode   == 0
NoHandle == [node |-> NoNode, nth |-> 0]      \* the variable is null
Todo  == {"alice's", "bob's"}
NoBackup == {"none"}
Failed   == {"failed"}

VARIABLES
  demo,       \* which of the five
  login,      \* storachaCredentials' method, or "backend"; "none"
  pc,         \* Actor -> the awaits its function has still to make
  at,         \* Persona -> the node its function works on
  found,      \* what the database restoreBob() was given holds
  hold,       \* Persona -> the node of aliceOrbitDB/-Helia/-Libp2p, bob...
  db,         \* Persona -> aliceDatabase, bobDatabase
  ident,      \* Persona -> sharedIdentity (aliceIdentity), bobIdentity
  same,       \* bobUseSameIdentity
  address,    \* sharedDatabaseAddress is set
  ready,      \* aliceAddressReady, bobAddressReady
  shown,      \* aliceTodos, bobTodos
  backup,     \* backupResult: NoBackup, Failed, or the todos it holds
  restored,   \* restoreResult is set
  nodes,      \* the nodes made so far: [by, up, of]: whose
              \* it is, whether it runs, and the identity its database's address is of
  logs,       \* Node -> the todos in its database
  opened,     \* handles of open databases
  overlap,    \* a cleanup and another function were under way together
  astray,     \* nodes a rejected await left behind
  cleanups, pageFaults   \* bounds

acts     == <<pc, at, found>>
world    == <<nodes, logs, opened>>
personas == <<hold, db, ident, same, address, ready, shown>>
outcome  == <<backup, restored>>
history  == <<overlap, astray, cleanups, pageFaults>>
pageVars == <<demo, login, acts, world, personas, outcome, history>>

This     == Pages[demo]
NoTodos  == [p \in Persona |-> {}]
Blank    == [by |-> "nobody", up |-> FALSE, of |-> "none"]
Up       == {n \in Node : nodes[n].up}
Idle(w)  == pc[w] = <<>>
Due(w)   == IF Idle(w) THEN "nothing" ELSE Head(pc[w])

PagesInit ==
  /\ demo \in DOMAIN Pages /\ login = "none"
  /\ pc = [w \in Actor |-> <<>>] /\ at = [p \in Persona |-> NoNode] /\ found = {}
  /\ hold = [p \in Persona |-> NoNode] /\ db = [p \in Persona |-> NoHandle]
  /\ ident = [p \in Persona |-> "none"] /\ same = TRUE /\ address = FALSE
  /\ ready = {} /\ shown = NoTodos
  /\ backup = NoBackup /\ restored = FALSE
  /\ nodes = [n \in Node |-> Blank] /\ logs = [n \in Node |-> {}]
  /\ opened = {}
  /\ overlap = FALSE /\ astray = {} /\ cleanups = 0 /\ pageFaults = 0

-----------------------------------------------------------------------------
(* The page's own events. *)

\* authenticated and logout, configured and cleared
LogIn(m) == /\ login = "none" /\ m \in This.bridge
            /\ login' = m
            /\ UNCHANGED <<demo, acts, world, personas, outcome, history>>
LogOut   == /\ login # "none"
            /\ login' = "none"
            /\ UNCHANGED <<demo, acts, world, personas, outcome, history>>

ToggleIdentity == /\ demo \in Switching
                  /\ Idle("bob") /\ hold["bob"] = NoNode
                  /\ same' = ~same
                  /\ UNCHANGED <<demo, login, acts, world, hold, db, ident, address, ready,
                                 shown, outcome, history>>

\* The node's addresses become dialable, or stop being so; its listener outlives
\* a reset of the page.
AddressReady(p) ==
  /\ demo = "replication"
  /\ \E n \in Up : nodes[n].by = p
  /\ ready' = IF p \in ready THEN ready \ {p} ELSE ready \cup {p}
  /\ UNCHANGED <<demo, login, acts, world, hold, db, ident, same, address, shown,
                 outcome, history>>

\* Two databases of one address reach each other.
Replicate(m, n) ==
  /\ {m, n} \subseteq Up /\ nodes[m].of = nodes[n].of
  /\ \A k \in {m, n} : \E h \in opened : h.node = k
  /\ ~ logs[m] \subseteq logs[n]
  /\ logs' = [logs EXCEPT ![n] = @ \cup logs[m]]
  /\ shown' = [p \in Persona |-> IF p \in This.refreshes /\ hold[p] = n THEN logs'[n]
                                 ELSE shown[p]]
  /\ UNCHANGED <<demo, login, acts, nodes, opened, hold, db, ident, same, address,
                 ready, outcome, history>>

-----------------------------------------------------------------------------
(* Calls and their awaits. *)

Holds(c) ==
  CASE c = "login"            -> login # "none"
    [] c = "alice down"       -> hold["alice"] = NoNode
    [] c = "bob down"         -> hold["bob"] = NoNode
    [] c = "bob up"           -> hold["bob"] # NoNode
    [] c = "alice database"   -> db["alice"] # NoHandle
    [] c = "bob database"     -> db["bob"] # NoHandle
    [] c = "todos shown"      -> shown["alice"] # {}
    [] c = "no todos shown"   -> shown["alice"] = {}
    [] c = "backup"           -> backup # NoBackup
    [] c = "no backup"        -> backup = NoBackup
    [] c = "not restored"     -> ~restored
    [] c = "identities"       -> ident["bob"] # "none" /\ address
    [] c = "alice ready"      -> "alice" \in ready

\* Calls of the library, made with the OrbitDB the page holds at that moment.
GivenOrbit == {"backup", "restore entries", "restore", "restore kept"}

Call(p, f) ==
  /\ Idle(p)
  /\ f \in DOMAIN This.buttons[p]
  /\ \A c \in This.buttons[p][f] \cup This.functions[f].asks : Holds(c)
  /\ pc' = [pc EXCEPT ![p] = This.functions[f].does]
  /\ at' = [at EXCEPT ![p] = IF Head(This.functions[f].does) \in GivenOrbit
                             THEN hold[p] ELSE NoNode]
  /\ overlap' = (overlap \/ ~Idle("cleanup"))
  /\ UNCHANGED <<demo, login, found, world, personas, outcome, astray, cleanups, pageFaults>>

Does(w, s) == /\ Due(w) = s
              /\ pc' = [pc EXCEPT ![w] = Tail(@)]
              /\ UNCHANGED <<demo, login, overlap, cleanups>>

\* A function that is over works on no node.
Leave(p)  == at' = [at EXCEPT ![p] = NoNode]

\* The await rejects: the rest of the function is skipped, and the node it had
\* started and not handed over is nobody's.
Rejects(p) ==
  /\ ~Idle(p)
  /\ pc' = [pc EXCEPT ![p] = <<>>]
  /\ Leave(p)
  /\ astray' = astray \cup ({at[p]} \ {NoNode, hold[p]})
  /\ UNCHANGED <<demo, login, found, overlap, cleanups>>

Costs == pageFaults < MaxPageFaults /\ pageFaults' = pageFaults + 1
Free  == UNCHANGED pageFaults

Made(p, kind) == IF kind = "stored" THEN "stored" ELSE p

MakeShared ==
  /\ Does("alice", "shared") /\ Free
  /\ \E kind \in This.identity :
       ident' = [ident EXCEPT !["alice"] = IF @ = "none" THEN Made("alice", kind) ELSE @]
  /\ UNCHANGED <<at, found, world, hold, db, same, address, ready, shown, outcome, astray>>

MakeBoth ==
  /\ Does("alice", "both") /\ Free
  /\ ident' = [p \in Persona |-> p]
  /\ UNCHANGED <<at, found, world, hold, db, same, address, ready, shown, outcome, astray>>

MakeOwn ==
  /\ Does("bob", "own") /\ Free
  /\ same => ident["alice"] # "none"
  /\ \E kind \in This.identity :
       /\ ident["alice"] \in {"none", Made("alice", kind)}
       /\ ident' = [ident EXCEPT !["bob"] = IF same \/ @ # "none" THEN @ ELSE Made("bob", kind)]
  /\ UNCHANGED <<at, found, world, hold, db, same, address, ready, shown, outcome, astray>>

\* createHelia().start()
StartNode(p) ==
  /\ Does(p, "start") /\ Free
  /\ \E n \in Node :
       /\ nodes[n] = Blank /\ \A k \in 1..(n - 1) : nodes[k] # Blank
       /\ nodes' = [nodes EXCEPT ![n] = [by |-> p, up |-> TRUE,
                                         of |-> IF p = "bob" /\ ~same THEN "bob" ELSE "alice"]]
       /\ at' = [at EXCEPT ![p] = n]
  /\ UNCHANGED <<found, logs, opened, personas, outcome, astray>>

\* The identities are read once the node runs.
Writer(p, of) == IF p = "bob" /\ of = "alice" /\ ident["alice"] = "none" THEN ident["bob"]
                 ELSE ident[of]
Orbit(p) ==
  /\ nodes' = [nodes EXCEPT ![at[p]].of = Writer(p, @)]
  /\ UNCHANGED <<logs, opened>>

CreateOrbit(p) ==
  /\ Does(p, "orbit") /\ Free /\ Orbit(p)
  /\ UNCHANGED <<at, found, personas, outcome, astray>>

CreateOrbitHeld(p) ==
  /\ Does(p, "orbit held") /\ Free /\ Orbit(p)
  /\ hold' = [hold EXCEPT ![p] = at[p]]
  /\ Leave(p)
  /\ UNCHANGED <<found, db, ident, same, address, ready, shown, outcome, astray>>

\* The database opens, and the four handles are the page's.
OpenDatabase(p) ==
  /\ Does(p, "open") /\ Free
  /\ LET h == [node |-> at[p], nth |-> 1]
     IN  opened' = opened \cup {h} /\ db' = [db EXCEPT ![p] = h]
  /\ hold' = [hold EXCEPT ![p] = at[p]]
  /\ address' = TRUE
  /\ Leave(p)
  /\ UNCHANGED <<found, nodes, logs, ident, same, ready, shown, outcome, astray>>

\* The wait for dialable addresses, 45 s at most; and the two steps that go on
\* whatever comes of them.
Wait(p) ==
  /\ \/ Does(p, "ready") /\ p \in ready
     \/ Does(p, "dial")
     \/ Does(p, "verify")
  /\ Free
  /\ UNCHANGED <<at, found, world, personas, outcome, astray>>

CanOpenShared == hold["bob"] # NoNode /\ address /\ nodes[hold["bob"]].up
OpenShared ==
  /\ Does("bob", "open shared") /\ Free
  /\ CanOpenShared
  /\ LET h == [node |-> hold["bob"], nth |-> 1]
     IN  opened' = opened \cup {h} /\ db' = [db EXCEPT !["bob"] = h]
  /\ UNCHANGED <<at, found, nodes, logs, hold, ident, same, address, ready, shown,
                 outcome, astray>>

Put(p) ==
  /\ Does(p, "put") /\ Free
  /\ db[p] \in opened
  /\ logs' = [logs EXCEPT ![db[p].node] = @ \cup {IF p = "alice" THEN "alice's" ELSE "bob's"}]
  /\ UNCHANGED <<at, found, nodes, opened, personas, outcome, astray>>

Show(p) ==
  /\ Does(p, "show") /\ Free
  /\ db[p] \in opened
  /\ shown' = [shown EXCEPT ![p] = logs[db[p].node]]
  /\ UNCHANGED <<at, found, world, hold, db, ident, same, address, ready, outcome, astray>>

Peek ==
  /\ Does("bob", "peek") /\ Free
  /\ db["alice"] \in opened \cup {NoHandle}
  /\ UNCHANGED <<at, found, world, personas, outcome, astray>>

\* Both lists, by addBobTodo or by the button shown while both databases are held.
ShowBoth == shown' = IF \A p \in Persona : db[p] \in opened
                     THEN [p \in Persona |-> logs[db[p].node]] ELSE shown
Check ==
  /\ \/ Does("bob", "check")
     \/ /\ demo = "replication" /\ \A p \in Persona : db[p] # NoHandle
        /\ UNCHANGED <<demo, login, pc, overlap, cleanups>>
  /\ Free /\ ShowBoth
  /\ UNCHANGED <<at, found, world, hold, db, ident, same, address, ready, outcome, astray>>

-----------------------------------------------------------------------------
(* Backups, restores and the cleanup. *)

Todos(result) == result \cap Todo

\* A stopped OrbitDB fails the backup; what it returns is kept either way, and
\* a database that was closed is opened for it.
Backup ==
  /\ Does("alice", "backup")
  /\ \/ /\ nodes[at["alice"]].up /\ Free
        /\ backup' = logs[at["alice"]]
        /\ opened' = opened \cup
             (IF \E h \in opened : h.node = at["alice"] THEN {}
              ELSE {[node |-> at["alice"], nth |-> 2]})
     \/ /\ IF nodes[at["alice"]].up THEN Costs ELSE Free
        /\ backup' = Failed /\ UNCHANGED opened
  /\ Leave("alice")
  /\ UNCHANGED <<found, nodes, logs, personas, restored, astray>>

\* The function ends here, its result kept.
GivesUp(p, s) == /\ Due(p) = s
                 /\ pc' = [pc EXCEPT ![p] = <<>>] /\ Leave(p)
                 /\ UNCHANGED <<demo, login, overlap, cleanups, found>>

Reopened == [node |-> at["bob"], nth |-> 2]

\* restoreLogEntriesOnly: a database of another id, which the entries join; a
\* failure is a result too.
RestoreEntries ==
  /\ restored' = TRUE
  /\ \/ /\ Does("bob", "restore entries") /\ Free
        /\ nodes[at["bob"]].up
        /\ \/ found' = Todos(backup)
           \/ found' = {}
        /\ opened' = opened \cup {Reopened}
        /\ UNCHANGED at
     \/ /\ GivesUp("bob", "restore entries")
        /\ IF nodes[at["bob"]].up THEN Costs ELSE Free
        /\ UNCHANGED opened
  /\ UNCHANGED <<nodes, logs, personas, backup, astray>>

\* restoreFromCID opens the backup's address on Bob's node and closes it to open
\* it again: where that is the database Bob has open, his handle is the closed one.
ClosedByRestore(reaches) ==
  IF reaches THEN {h \in opened : h.node = at["bob"] /\ h.nth = 1} ELSE {}

RestoreByCID ==
  /\ Does("bob", "restore") /\ Free
  /\ backup # Failed /\ nodes[at["bob"]].up
  /\ LET reaches == nodes[at["bob"]].of = ident["alice"]
     IN  /\ opened' = (opened \ ClosedByRestore(reaches)) \cup {Reopened}
         /\ found' = Todos(backup) \cup (IF reaches THEN logs[at["bob"]] ELSE {})
         /\ logs' = [logs EXCEPT ![at["bob"]] = IF reaches THEN found' ELSE @]
  /\ restored' = TRUE
  /\ UNCHANGED <<at, nodes, personas, backup, astray>>

\* The replication page keeps the database the restore returns as Bob's.
M_RestoreAside ==
  /\ Does("bob", "restore kept") /\ Free
  /\ backup # Failed /\ nodes[at["bob"]].up
  /\ opened' = (opened \ ClosedByRestore(TRUE)) \cup {Reopened}
  /\ logs' = [logs EXCEPT ![at["bob"]] = @ \cup Todos(backup)]
  /\ restored' = TRUE
  /\ Leave("bob")
  /\ UNCHANGED <<found, nodes, personas, backup, astray>>
RestoreKept ==
  /\ Does("bob", "restore kept") /\ Free
  /\ backup # Failed /\ nodes[at["bob"]].up
  /\ opened' = (opened \ ClosedByRestore(TRUE)) \cup {Reopened}
  /\ db' = [db EXCEPT !["bob"] = Reopened]
  /\ logs' = [logs EXCEPT ![at["bob"]] = @ \cup Todos(backup)]
  /\ restored' = TRUE
  /\ Leave("bob")
  /\ UNCHANGED <<found, nodes, hold, ident, same, address, ready, shown, backup, astray>>

\* It may fail when the database is already closed.
RestoreBreaks ==
  /\ Due("bob") \in {"restore", "restore kept"}
  /\ Costs
  /\ GivesUp("bob", Due("bob"))
  /\ \/ UNCHANGED <<opened, astray>>
     \/ /\ opened' = opened \ ClosedByRestore(nodes[at["bob"]].of = ident["alice"])
        /\ astray' = astray \cup {at["bob"]}
  /\ UNCHANGED <<nodes, logs, personas, outcome>>

ShowRestored ==
  /\ Does("bob", "show restored") /\ Free
  /\ Reopened \in opened
  /\ shown' = [shown EXCEPT !["bob"] = found]
  /\ Leave("bob")
  /\ UNCHANGED <<found, world, hold, db, ident, same, address, ready, outcome, astray>>

\* What rejects whatever the world does.
Refused(p) ==
  LET s == Due(p)
  IN  \/ s = "own" /\ same /\ ident["alice"] = "none"
      \/ s = "open shared" /\ ~CanOpenShared
      \/ s \in {"put", "show"} /\ db[p] \notin opened
      \/ s = "peek" /\ db["alice"] \notin opened \cup {NoHandle}
      \/ s \in {"restore", "restore kept"} /\ (backup = Failed \/ ~nodes[at[p]].up)
      \/ s = "show restored" /\ Reopened \notin opened
      \/ s = "undeclared"
Refuse(p) == /\ Rejects(p) /\ Refused(p) /\ Free
             /\ UNCHANGED <<world, personas, outcome>>

\* What else may reject: a node that does not start, an address that does not
\* become dialable in time, a write refused.
Catching == {"dial", "verify", "check"} \cup GivenOrbit
Fail(p) == /\ Rejects(p) /\ Due(p) \notin Catching /\ ~Refused(p) /\ Costs
           /\ UNCHANGED <<world, personas, outcome>>

CallCleanup ==
  /\ Idle("cleanup") /\ cleanups < MaxCleanups
  /\ pc' = [pc EXCEPT !["cleanup"] = This.cleanup]
  /\ cleanups' = cleanups + 1
  /\ overlap' = (overlap \/ \E p \in Persona : ~Idle(p))
  /\ UNCHANGED <<demo, login, at, found, world, personas, outcome, astray, pageFaults>>

\* database.close(), orbitdb.stop(), which closes every database of that node,
\* then the node itself.
CloseDatabase(p) ==
  /\ Does("cleanup", Stops[p][1])
  /\ opened' = opened \ {db[p]} /\ UNCHANGED nodes
StopOrbit(p) ==
  /\ Does("cleanup", Stops[p][2])
  /\ opened' = {h \in opened : h.node # hold[p]} /\ UNCHANGED nodes
M_StopNodeAlice(p) ==
  /\ Does("cleanup", Stops[p][3])
  /\ nodes' = [n \in Node |-> IF n = hold["alice"] THEN [nodes[n] EXCEPT !.up = FALSE]
                              ELSE nodes[n]]
  /\ UNCHANGED opened
StopNode(p) ==
  /\ Does("cleanup", Stops[p][3])
  /\ nodes' = [n \in Node |-> IF n = hold[p] THEN [nodes[n] EXCEPT !.up = FALSE] ELSE nodes[n]]
  /\ UNCHANGED opened
Stopping(p) ==
  /\ CloseDatabase(p) \/ StopOrbit(p) \/ StopNode(p)
  /\ Free
  /\ UNCHANGED <<at, found, logs, personas, outcome, astray>>

\* One of them rejects: the persona's others are not tried.
CannotStop(p) ==
  /\ \E i \in DOMAIN Stops[p] : Due("cleanup") = Stops[p][i]
  /\ hold[p] # NoNode /\ Costs
  /\ pc' = [pc EXCEPT !["cleanup"] = AfterStops[p]]
  /\ astray' = astray \cup {hold[p]}
  /\ UNCHANGED <<demo, login, at, found, world, personas, outcome, overlap, cleanups>>

\* clearIndexedDB (what the browser stores is left out), then the page's variables.
ClearAndReset ==
  /\ This.clear = "deletes"
  /\ Does("cleanup", "clear") /\ Free
  /\ hold' = [p \in Persona |-> NoNode] /\ db' = [p \in Persona |-> NoHandle]
  /\ ident' = [p \in Persona |-> "none"] /\ same' = TRUE /\ address' = FALSE
  /\ ready' = {} /\ shown' = NoTodos
  /\ backup' = NoBackup /\ restored' = FALSE
  /\ UNCHANGED <<at, found, nodes, logs, opened, astray>>

ClearRejects ==
  /\ This.clear = "rejects"
  /\ Does("cleanup", "clear") /\ Free
  /\ UNCHANGED <<at, found, world, personas, outcome, astray>>

PagesNext ==
  \/ \E m \in {"credentials", "client", "backend"} : LogIn(m)
  \/ LogOut \/ ToggleIdentity
  \/ \E p \in Persona : AddressReady(p)
  \/ \E m, n \in Node : Replicate(m, n)
  \/ \E p \in Persona : \E f \in DOMAIN This.buttons[p] : Call(p, f)
  \/ MakeShared \/ MakeBoth \/ MakeOwn
  \/ \E p \in Persona : StartNode(p)
  \/ \E p \in Persona : CreateOrbit(p) \/ CreateOrbitHeld(p)
  \/ \E p \in Persona : OpenDatabase(p) \/ Wait(p) \/ Put(p) \/ Show(p)
  \/ OpenShared \/ Peek \/ Check
  \/ Backup \/ RestoreEntries \/ RestoreByCID \/ RestoreKept \/ RestoreBreaks \/ ShowRestored
  \/ \E p \in Persona : Refuse(p) \/ Fail(p)
  \/ CallCleanup
  \/ \E p \in Persona : Stopping(p) \/ CannotStop(p)
  \/ ClearAndReset \/ ClearRejects

PagesSpec == PagesInit /\ [][PagesNext]_pageVars

-----------------------------------------------------------------------------

\* A node that runs is one the page holds, or one a function that is under way
\* is about to hand over, so that a cleanup finds it: buttons, early returns and
\* flags let no function replace a node of the page's.  Nodes a rejected await
\* left behind are apart, and runs in which cleanup() met a function under way,
\* which it does not look at (StorachaTest.svelte cleanup, initialize*).
NoNodeLeaks ==
  ~overlap => \A n \in Up : n \in astray \/ \E p \in Persona : n \in {hold[p], at[p]}

\* A database a button uses is open while its handle is the page's: a restore
\* that closes Bob's database to read it anew hands him the new one before he
\* can write (ReplicationDemo.svelte restoreBob, addBobTodo).  A page whose
\* cleanup rejects keeps handles it has closed.
Used(p) == p = "alice" \/ "addBobTodo" \in DOMAIN This.buttons.bob
HandlesOpen ==
  (~overlap /\ Idle("cleanup") /\ This.clear = "deletes") =>
    \A p \in Persona : (Used(p) /\ Idle(p) /\ db[p] # NoHandle) =>
      db[p] \in opened \/ db[p].node \in astray

=============================================================================
