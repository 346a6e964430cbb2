---------------------------- MODULE PageFunctions ----------------------------
(***************************************************************************)
(* What the buttons of the five Alice-and-Bob demonstration pages ask for  *)
(* and do: src/components/StorachaTest*.svelte, BackupRestoreDemo.svelte   *)
(* and ReplicationDemo.svelte.  One definition per function of a page.     *)
(* Button rows and functions give conditions (a button's `disabled` and    *)
(* the function's early returns together guard a call); a function also    *)
(* gives the awaits it makes, in their order.  TodoPages says what each    *)
(* condition and each await means.                                         *)
(*                                                                         *)
(* Every function sets its persona's running flag first and clears it in   *)
(* `finally`; a rejected await skips the rest of it.  Results, step lines, *)
(* notifications and log output are left out.                              *)
(***************************************************************************)
EXTENDS Sequences

Persona == {"alice", "bob"}

\* cleanup() stops what a persona holds, in this order; a rejection skips to
\* the next persona.
Stops == [alice |-> <<"close alice", "halt alice", "stop alice">>,
          bob   |-> <<"close bob", "halt bob", "stop bob">>]
AfterStops == [alice |-> Stops.bob \o <<"clear">>, bob |-> <<"clear">>]

-----------------------------------------------------------------------------
(* src/components/StorachaTest.svelte *)

TodoAliceButtons == [initializeAlice |-> {"login", "alice down"},
                     addTodos |-> {"alice database", "no todos shown"},
                     backupAlice |-> {"login", "todos shown", "no backup"}]
TodoBobButtons == [initializeBob |-> {"login", "backup", "bob down"},
                   restoreBob |-> {"login", "bob up", "not restored"}]

\* A new mnemonic, and the identity of its seed.
TodoCreateIdentity == {"new"}
\* The logins a bridge is made from: credentials, read again from the browser's
\* storage at that moment, or the client of a UCAN or seed login.
TodoBridge == {"credentials", "client"}
\* setupDatabaseEventListeners: the handlers look their first argument up among
\* database addresses.  "join" passes a peer id there and "update" an entry, so
\* no list is shown anew.
TodoListeners == {}
\* The options name `accessController`, which OrbitDB does not read: only the
\* identity that opens the database may write, and its address follows from it.
TodoCreateInstance == <<"start", "orbit", "open">>
TodoClear == "deletes"

TodoInitializeAlice == [asks |-> {"login"}, does |-> <<"shared">> \o TodoCreateInstance]
TodoAddTodos        == [asks |-> {"alice database"}, does |-> <<"put", "show">>]
TodoBackupAlice     == [asks |-> {"login", "alice database"}, does |-> <<"backup">>]
TodoInitializeBob   == [asks |-> {"login", "backup"}, does |-> <<"own">> \o TodoCreateInstance]
TodoRestoreBob      == [asks |-> {"login", "bob up", "backup"},
                        does |-> <<"restore entries", "show restored">>]
TodoCleanup         == Stops.alice \o AfterStops.alice

TodoPage == [buttons |-> [alice |-> TodoAliceButtons, bob |-> TodoBobButtons],
             identity |-> TodoCreateIdentity, bridge |-> TodoBridge,
             refreshes |-> TodoListeners, clear |-> TodoClear,
             functions |-> [initializeAlice |-> TodoInitializeAlice,
                            addTodos |-> TodoAddTodos, backupAlice |-> TodoBackupAlice,
                            initializeBob |-> TodoInitializeBob,
                            restoreBob |-> TodoRestoreBob],
             cleanup |-> TodoCleanup]

-----------------------------------------------------------------------------
(* src/components/StorachaTestWithWebAuthn.svelte *)

WebAuthnAliceButtons == [initializeAlice |-> {"login", "alice down"},
                         addTodos |-> {"alice database", "no todos shown"},
                         backupAlice |-> {"login", "todos shown", "no backup"}]
WebAuthnBobButtons == [initializeBob |-> {"login", "backup", "bob down"},
                       restoreBob |-> {"login", "bob up", "not restored"}]

\* A mnemonic, or a passkey: either is made anew each time.
WebAuthnMnemonicIdentity == {"new"}
WebAuthnPasskeyIdentity  == {"new"}
WebAuthnBridge == {"credentials", "client"}
WebAuthnListeners == {}
WebAuthnCreateInstance == <<"start", "orbit", "open">>
\* Its log line reads `client`, which the page does not declare: it rejects
\* before it deletes anything.
WebAuthnClear == "rejects"

WebAuthnInitializeAlice == [asks |-> {"login"}, does |-> <<"shared">> \o WebAuthnCreateInstance]
\* The inspection of the log and of the access controller that follows the
\* puts catches its own errors and changes nothing.
WebAuthnAddTodos      == [asks |-> {"alice database"}, does |-> <<"put", "show">>]
WebAuthnBackupAlice   == [asks |-> {"login", "alice database"}, does |-> <<"backup">>]
WebAuthnInitializeBob == [asks |-> {"login", "backup"}, does |-> <<"own">> \o WebAuthnCreateInstance]
WebAuthnRestoreBob    == [asks |-> {"login", "bob up", "backup"},
                          does |-> <<"restore entries", "show restored">>]
WebAuthnCleanup       == Stops.alice \o AfterStops.alice

WebAuthnPage == [buttons |-> [alice |-> WebAuthnAliceButtons, bob |-> WebAuthnBobButtons],
                 identity |-> WebAuthnMnemonicIdentity \cup WebAuthnPasskeyIdentity,
                 bridge |-> WebAuthnBridge,
                 refreshes |-> WebAuthnListeners, clear |-> WebAuthnClear,
                 functions |-> [initializeAlice |-> WebAuthnInitializeAlice,
                                addTodos |-> WebAuthnAddTodos,
                                backupAlice |-> WebAuthnBackupAlice,
                                initializeBob |-> WebAuthnInitializeBob,
                                restoreBob |-> WebAuthnRestoreBob],
                 cleanup |-> WebAuthnCleanup]

-----------------------------------------------------------------------------
(* examples/svelte/simple-backup-restore: BackupRestoreDemo.svelte.  "login" *)
(* is a storage backend chosen and probed.                                   *)

SimpleAliceButtons == [initializeAlice |-> {"login", "alice down"},
                       addTodos |-> {"alice database", "no todos shown"},
                       backupAlice |-> {"login", "todos shown", "no backup"}]
SimpleBobButtons == [initializeBob |-> {"login", "backup", "bob down"},
                     restoreBob |-> {"login", "bob up", "not restored"}]

SimpleMnemonicIdentity == {"new"}
\* The passkey this browser keeps, whoever asks: Bob's "own" one is Alice's.
SimplePasskeyIdentity == {"stored"}
SimpleStorage == {"backend"}
SimpleListeners == {}
SimpleCreateInstance == <<"start", "orbit", "open">>
SimpleClear == "deletes"

SimpleInitializeAlice == [asks |-> {"login"}, does |-> <<"shared">> \o SimpleCreateInstance]
SimpleAddTodos        == [asks |-> {"alice database"}, does |-> <<"put", "show">>]
SimpleBackupAlice     == [asks |-> {"login", "alice database"}, does |-> <<"backup">>]
SimpleInitializeBob   == [asks |-> {"login", "backup"}, does |-> <<"own">> \o SimpleCreateInstance]
\* restoreFromCID opens the backup's address, closes it and opens it again; the
\* database it returns is read and not kept.
SimpleRestoreBob      == [asks |-> {"login", "bob up", "backup"},
                          does |-> <<"restore", "show restored">>]
SimpleCleanup         == Stops.alice \o AfterStops.alice

SimplePage == [buttons |-> [alice |-> SimpleAliceButtons, bob |-> SimpleBobButtons],
               identity |-> SimpleMnemonicIdentity \cup SimplePasskeyIdentity,
               bridge |-> SimpleStorage, refreshes |-> SimpleListeners, clear |-> SimpleClear,
               functions |-> [initializeAlice |-> SimpleInitializeAlice,
                              addTodos |-> SimpleAddTodos, backupAlice |-> SimpleBackupAlice,
                              initializeBob |-> SimpleInitializeBob,
                              restoreBob |-> SimpleRestoreBob],
               cleanup |-> SimpleCleanup]

-----------------------------------------------------------------------------
(* examples/svelte/orbitdb-replication: ReplicationDemo.svelte.  Both write  *)
(* to the database Alice creates; Bob opens it by its address.               *)

ReplicationAliceButtons == [initializeAlice |-> {"login", "alice down"},
                            addTodos |-> {"alice database", "no todos shown"},
                            backupAlice |-> {"login", "todos shown", "no backup"}]
ReplicationBobButtons == [initializeBob |-> {"login", "identities", "bob down", "alice ready"},
                          addBobTodo |-> {"bob database"},
                          restoreBob |-> {"login", "bob up", "backup", "not restored"}]

\* generateBothIdentities: two mnemonics, two identities, then the flag.
ReplicationBothIdentities == {"new"}
\* A join that named a tracked address would read both lists again.
ReplicationListeners == {}
ReplicationStorage == {"backend"}
\* The set-up of the node, with the relays read from the network before it
\* starts; Alice's database, which both may write to; Bob's waits.
ReplicationNode == <<"start">>
ReplicationDatabase == [alice |-> <<"orbit", "open">>, bob |-> <<"orbit held">>]
ReplicationCreateInstance == [p \in Persona |-> ReplicationNode \o ReplicationDatabase[p]]
\* Both resolve whether or not the peers are connected.
ReplicationDial   == <<"dial">>
ReplicationVerify == <<"verify">>
\* The variables are read when the call is made, not when Bob's node started.
ReplicationOpenShared == <<"open shared">>
\* checkReplicationStatus: both lists, or neither where a database is missing
\* or does not answer.
ReplicationCheck == <<"check">>
ReplicationClear == "deletes"

ReplicationInitializeAlice == [asks |-> {"login"},
                               does |-> <<"both">> \o ReplicationCreateInstance.alice]
ReplicationAddTodos    == [asks |-> {"alice database"}, does |-> <<"put", "show">>]
ReplicationBackupAlice == [asks |-> {"login", "alice database"}, does |-> <<"backup">>]
ReplicationInitializeBob ==
  [asks |-> {"login", "identities"},
   does |-> ReplicationCreateInstance.bob \o <<"ready">> \o ReplicationDial
            \o ReplicationVerify \o ReplicationOpenShared \o <<"show">>]
ReplicationRestoreBob  == [asks |-> {"login", "bob up", "backup"},
                           does |-> <<"restore kept", "show">>]
ReplicationAddBobTodo  == [asks |-> {"bob database"},
                           does |-> <<"peek", "put">> \o ReplicationCheck \o <<"show">>]
ReplicationCleanup     == Stops.alice \o AfterStops.alice

ReplicationPage == [buttons |-> [alice |-> ReplicationAliceButtons,
                                 bob |-> ReplicationBobButtons],
                    identity |-> ReplicationBothIdentities, bridge |-> ReplicationStorage,
                    refreshes |-> ReplicationListeners, clear |-> ReplicationClear,
                    functions |-> [initializeAlice |-> ReplicationInitializeAlice,
                                   addTodos |-> ReplicationAddTodos,
                                   backupAlice |-> ReplicationBackupAlice,
                                   initializeBob |-> ReplicationInitializeBob,
                                   restoreBob |-> ReplicationRestoreBob,
                                   addBobTodo |-> ReplicationAddBobTodo],
                    cleanup |-> ReplicationCleanup]

-----------------------------------------------------------------------------
(* src/components/StorachaTestWithReplication.svelte, as far as it gets: its *)
(* createOrbitDBInstance reads `database` before the line that declares it,  *)
(* so no persona of this page ever holds a node, and no other button of it   *)
(* is ever enabled.                                                          *)

UndeclaredAliceButton == [initializeAlice |-> {"login", "alice down"}]
UndeclaredLogin == {"client"}
UndeclaredCreateIdentity == {"new"}
UndeclaredCreateInstance == <<"start", "undeclared">>
UndeclaredClear == "deletes"
UndeclaredInitializeAlice == [asks |-> {"login"},
                              does |-> <<"shared">> \o UndeclaredCreateInstance]
UndeclaredCleanup == Stops.alice \o AfterStops.alice

UndeclaredPage == [buttons |-> [alice |-> UndeclaredAliceButton, bob |-> <<>>],
                   identity |-> UndeclaredCreateIdentity, bridge |-> UndeclaredLogin,
                   refreshes |-> {}, clear |-> UndeclaredClear,
                   functions |-> [initializeAlice |-> UndeclaredInitializeAlice],
                   cleanup |-> UndeclaredCleanup]

\* The pages with a switch for Bob's identity, off while he runs or holds a node.
Switching == {"todo", "webauthn", "simple"}

Pages == [todo |-> TodoPage, webauthn |-> WebAuthnPage, simple |-> SimplePage,
          replication |-> ReplicationPage, undeclared |-> UndeclaredPage]

=============================================================================
