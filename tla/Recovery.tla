------------------------------ MODULE Recovery ------------------------------
(***************************************************************************)
(* The recovery demonstration (examples/svelte/recovery): one security     *)
(* key, any number of phones, nothing between them but a backup and the    *)
(* pointer the key's secret names.  A page holds its stack and its list in *)
(* memory; one step of it runs at a time.  dehydrate() and hydrate() are   *)
(* Handover's, taken here as a capture, a put and a record, each of which  *)
(* may fail; the services ticked say where the bytes go and are left out.  *)
(*                                                                         *)
(* A page closed without step 4 is left out: what OrbitDB makes of the     *)
(* heads it finds in IndexedDB, their blocks gone, is not in this          *)
(* repository.                                                             *)
(***************************************************************************)
EXTENDS Naturals, FiniteSets

CONSTANTS Phone, MaxEntries, MaxPublished, MaxStacks, MaxPhoneFaults

Entry == 1..MaxEntries
ASSUME RecoveryAssumption == MaxEntries \in Nat /\ MaxStacks \in Nat

NoList == [stack |-> 0, live |-> FALSE]

VARIABLES
  step,       \* Phone -> what the step under way does next; "idle"
  stack,      \* Phone -> the stack it uses, 0 before step 1
  list,       \* Phone -> [stack, live]: `db`, and whether it is open
  log,        \* Phone -> stack -> the entries whose blocks that stack holds
  captured,   \* Phone -> what the backup under way carries
  leaving,    \* phones that forgot everything and are about to reload
  record,     \* what the pointer names, a set of entries
  written, published,     \* entries and records made so far
  based,      \* Phone -> the record its list has joined or made
  everNamed,  \* the entries any record has named
  crossed,    \* a record was published by a phone that had not joined the last
  phoneFaults \* bound

pageState == <<step, stack, list, log, captured, leaving>>
phoneVars == <<pageState, record, written, published, based, everNamed, crossed,
               phoneFaults>>

RecoveryInit ==
  /\ step = [p \in Phone |-> "idle"] /\ stack = [p \in Phone |-> 0]
  /\ list = [p \in Phone |-> NoList]
  /\ log = [p \in Phone |-> [k \in 1..MaxStacks |-> {}]]
  /\ captured = [p \in Phone |-> {}]
  /\ leaving = {} /\ record = {} /\ written = 0 /\ published = 0
  /\ based = [p \in Phone |-> 0] /\ everNamed = {} /\ crossed = FALSE /\ phoneFaults = 0

-----------------------------------------------------------------------------

\* step(): a button is off while another step runs, and step() returns.
Press(p, name) == step[p] = "idle" /\ step' = [step EXCEPT ![p] = name]
Goes(p, s, next) == step[p] = s /\ step' = [step EXCEPT ![p] = next]
World == <<record, written, published, based, everNamed, crossed>>

UseTheKey(p) == /\ Press(p, "key")
                /\ UNCHANGED <<stack, list, log, captured, leaving, World, phoneFaults>>

\* Asked again, the key makes another stack; the list stays open on the old one.
CreateStack(p) ==
  /\ Goes(p, "key", "idle") /\ stack[p] < MaxStacks
  /\ stack' = [stack EXCEPT ![p] = @ + 1]
  /\ UNCHANGED <<list, log, captured, leaving, World, phoneFaults>>

\* The address is the same wherever the key is.
MakeList(p) ==
  /\ stack[p] # 0 /\ list[p] = NoList
  /\ Press(p, "list")
  /\ UNCHANGED <<stack, list, log, captured, leaving, World, phoneFaults>>
CreateList(p) ==
  /\ Goes(p, "list", "idle")
  /\ list' = [list EXCEPT ![p] = [stack |-> stack[p], live |-> TRUE]]
  /\ UNCHANGED <<stack, log, captured, leaving, World, phoneFaults>>

Add(p) == /\ list[p] # NoList /\ written < MaxEntries
          /\ Press(p, "add")
          /\ UNCHANGED <<stack, list, log, captured, leaving, World, phoneFaults>>
AddEntry(p) ==
  /\ Goes(p, "add", "idle") /\ list[p].live /\ written < MaxEntries
  /\ written' = written + 1
  /\ log' = [log EXCEPT ![p][list[p].stack] = @ \cup {written'}]
  /\ UNCHANGED <<stack, list, captured, leaving, record, published, based, everNamed,
                 crossed, phoneFaults>>

Dehydrate(p) ==
  /\ list[p] # NoList /\ published < MaxPublished
  /\ Press(p, "backup")
  /\ UNCHANGED <<stack, list, log, captured, leaving, World, phoneFaults>>

\* backUp() opens the list's address on the stack there is now.
Capture(p) ==
  /\ Goes(p, "backup", "put")
  /\ captured' = [captured EXCEPT ![p] = log[p][stack[p]]]
  /\ UNCHANGED <<stack, list, log, leaving, World, phoneFaults>>

\* The CAR and its metadata are up; the record follows, and its PUT may be taken
\* although its answer is lost: the step has failed then, and the record stands.
PublishPointer(p) ==
  /\ Goes(p, "put", "idle") /\ published < MaxPublished
  /\ published' = published + 1
  /\ record' = captured[p] /\ captured' = [captured EXCEPT ![p] = {}]
  /\ everNamed' = everNamed \cup captured[p]
  /\ crossed' = (crossed \/ based[p] # published \/ list[p].stack # stack[p])
  /\ based' = [based EXCEPT ![p] = published']
  /\ UNCHANGED <<stack, list, log, leaving, written, phoneFaults>>

Hydrate(p) == /\ stack[p] # 0
              /\ Press(p, "restore")
              /\ UNCHANGED <<stack, list, log, captured, leaving, World, phoneFaults>>

\* hydrate(): the record, its CAR, and the list it fills: the database is closed
\* and opened again, and the page takes the one that is open.
M_BringBackClosed(p) ==
  /\ Goes(p, "restore", "idle") /\ published > 0
  /\ list' = [list EXCEPT ![p] = [stack |-> stack[p], live |-> TRUE]]
  /\ based' = [based EXCEPT ![p] = published]
  /\ UNCHANGED <<stack, log, captured, leaving, record, written, published, everNamed,
                 crossed, phoneFaults>>
BringBack(p) ==
  /\ Goes(p, "restore", "idle") /\ published > 0
  /\ log' = [log EXCEPT ![p][stack[p]] = @ \cup record]
  /\ list' = [list EXCEPT ![p] = [stack |-> stack[p], live |-> TRUE]]
  /\ based' = [based EXCEPT ![p] = published]
  /\ UNCHANGED <<stack, captured, leaving, record, written, published, everNamed,
                 crossed, phoneFaults>>

\* step()'s catch.  A restore that fails between the two leaves the list closed.
Fails(p) ==
  /\ step[p] \notin {"idle", "forget"} /\ step' = [step EXCEPT ![p] = "idle"]
  /\ captured' = [captured EXCEPT ![p] = {}]
  /\ \/ step[p] = "add" /\ ~list[p].live
     \/ step[p] = "restore" /\ published = 0
     \/ step[p] = "key" /\ stack[p] = MaxStacks
     \/ step[p] = "add" /\ written = MaxEntries
     \/ step[p] = "put" /\ published = MaxPublished
  /\ UNCHANGED <<stack, list, log, leaving, World, phoneFaults>>
Breaks(p) ==
  /\ step[p] \notin {"idle", "forget"} /\ step' = [step EXCEPT ![p] = "idle"]
  /\ captured' = [captured EXCEPT ![p] = {}]
  /\ phoneFaults < MaxPhoneFaults /\ phoneFaults' = phoneFaults + 1
  /\ \/ UNCHANGED list
     \/ /\ step[p] = "restore" /\ list[p].stack = stack[p]
        /\ list' = [list EXCEPT ![p].live = FALSE]
  /\ UNCHANGED <<stack, log, leaving, World>>

\* Step 4 clears what is stored; the page reloads 600 ms later, in the middle of
\* whatever was pressed meanwhile.
Forget(p) == /\ Press(p, "forget")
             /\ UNCHANGED <<stack, list, log, captured, leaving, World, phoneFaults>>
ForgetEverything(p) ==
  /\ Goes(p, "forget", "idle")
  /\ leaving' = leaving \cup {p}
  /\ UNCHANGED <<stack, list, log, captured, World, phoneFaults>>
Reload(p) ==
  /\ p \in leaving /\ leaving' = leaving \ {p}
  /\ step' = [step EXCEPT ![p] = "idle"] /\ stack' = [stack EXCEPT ![p] = 0]
  /\ list' = [list EXCEPT ![p] = NoList]
  /\ log' = [log EXCEPT ![p] = [k \in 1..MaxStacks |-> {}]]
  /\ captured' = [captured EXCEPT ![p] = {}]
  /\ based' = [based EXCEPT ![p] = 0]
  /\ UNCHANGED <<record, written, published, everNamed, crossed, phoneFaults>>

RecoveryNext ==
  \E p \in Phone :
     \/ UseTheKey(p) \/ CreateStack(p) \/ MakeList(p) \/ CreateList(p) \/ Add(p) \/ AddEntry(p)
     \/ Dehydrate(p) \/ Capture(p) \/ PublishPointer(p)
     \/ Hydrate(p) \/ BringBack(p) \/ Fails(p) \/ Breaks(p)
     \/ Forget(p) \/ ForgetEverything(p) \/ Reload(p)

RecoverySpec == RecoveryInit /\ [][RecoveryNext]_phoneVars

-----------------------------------------------------------------------------

\* While phones take turns, nothing a pointer has named is lost: a phone that
\* joined the last record before it published its own, on the stack its list is
\* open on, carries what was there before, through failed steps, lost answers
\* and phones that forget everything (App.svelte steps 3 to 5; the page's claim
\* that the security key alone brings the list back).
TurnsKeepAll == ~crossed => everNamed \subseteq record

=============================================================================
