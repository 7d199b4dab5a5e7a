---------------------------- MODULE MobileWallet ----------------------------
(***************************************************************************)
(* The mobile wallet: a session over the secure storage of the device.     *)
(*                                                                         *)
(* A handler decides from the state of the render it was tapped in what it *)
(* will write and read, and then awaits each of these steps; nothing keeps *)
(* the user from starting another one meanwhile, the app from leaving the  *)
(* foreground, or the system from ending it.  What the node answers        *)
(* (accounts, activity, payments, the faucet) is only shown, and left out. *)
(***************************************************************************)
EXTENDS Naturals, Sequences, FiniteSets

CONSTANTS
  Keys,        \* wallets
  Passes,      \* passphrases that getValidatedPassphrase accepts
  Files,       \* keystores a user may import
  Devices,     \* the cases checked: secure storage, enrolled biometrics
  Slots,       \* bound: handlers under way at once
  MaxTaps,     \* bound: what the user does
  MaxEnds,     \* bound: how often the system ends the app
  Nothing

Keystores == [key : Keys, pass : Passes]

VARIABLES
  device,     \* one of Devices
  vault,      \* what SecureStore holds
  app,        \* the state of the component, as of its last render
  active,     \* the app is in the foreground
  tasks,      \* slot -> a handler that awaits something
  made,       \* wallets that some keystore holds already
  taps,       \* what the user did so far
  ends,       \* how often the app was ended
  settled,    \* history: what the last handler that wrote to the vault had to
              \*   leave there, if it ran to its end without another one
  torn,       \* history: a write of the secret or the flag was cut off, or two
              \*   handlers that write to the vault ran at once
  overtaken,  \* history: the keystore was replaced under the session
  late        \* history: the wallet was unlocked in the background

vars == <<device, vault, app, active, tasks, made, taps, ends, settled, torn, overtaken, late>>

Vaults == [keystore : Keystores \cup {Nothing}, secret : Passes \cup {Nothing}, enabled : BOOLEAN]
EmptyVault == [keystore |-> Nothing, secret |-> Nothing, enabled |-> FALSE]

\* deviceSecurity and devicePreferences.
Securities == [store : BOOLEAN, biometric : BOOLEAN, configured : BOOLEAN, stored : BOOLEAN]
Preferences == [quick : BOOLEAN, persist : BOOLEAN]
Apps == [wallet : Keys \cup {Nothing}, keystore : Keystores \cup {Nothing},
         security : Securities, preferences : Preferences]

DEFAULT_DEVICE_SECURITY == [store |-> FALSE, biometric |-> FALSE, configured |-> FALSE, stored |-> FALSE]
NewApp == [wallet |-> Nothing, keystore |-> Nothing, security |-> DEFAULT_DEVICE_SECURITY,
           preferences |-> [quick |-> FALSE, persist |-> TRUE]]

\* The awaits of handlers: writes to the vault, a snapshot of it that is read
\* and then shown, a decryption, the biometric secret, and the setters.
Items(step) ==
  CASE step = "persist" -> {"keystore"}
    [] step \in {"enable", "disable"} -> {"secret", "enabled"}
    [] step = "clear" -> {"keystore", "secret", "enabled"}
    [] OTHER -> {}
Steps == {"persist", "enable", "disable", "clear", "read", "show", "restore", "decrypt", "load",
          "unlocked", "opened", "adopted", "forgotten"}

Snapshots == [security : Securities, keystore : Keystores \cup {Nothing}]

ASSUME MobileWalletAssumption ==
  /\ Files \subseteq Keystores
  /\ Devices \subseteq [store : BOOLEAN, biometric : BOOLEAN]
  /\ Nothing \notin Keys \cup Passes \cup Keystores \cup Snapshots
  /\ Slots # {}
  /\ {MaxTaps, MaxEnds} \subseteq Nat

Tasks == [steps : Seq(Steps), items : SUBSET {"keystore", "secret", "enabled"},
          keystore : Keystores \cup {Nothing}, pass : Passes \cup {Nothing},
          seen : Snapshots \cup {Nothing}, promise : Vaults \cup {Nothing}]
NoTask == [steps |-> <<>>, items |-> {}, keystore |-> Nothing, pass |-> Nothing,
           seen |-> Nothing, promise |-> Nothing]

-----------------------------------------------------------------------------
(* The device. *)

getDeviceSecuritySnapshot ==
  [security |-> [store |-> device.store, biometric |-> device.store /\ device.biometric,
                 configured |-> device.store /\ vault.enabled,
                 stored |-> device.store /\ vault.keystore # Nothing],
   keystore |-> IF device.store THEN vault.keystore ELSE Nothing]

\* syncDeviceSecurityState, once the snapshot is there.
Synced(a, seen) ==
  [a EXCEPT !.security = seen.security,
            !.preferences = [quick |-> seen.security.configured \/ (@.quick /\ seen.security.biometric),
                             persist |-> seen.security.store /\ (seen.security.stored \/ @.persist)]]

updateDevicePreference(preferences, field, value) ==
  CASE field = "quick" /\ value -> [quick |-> TRUE, persist |-> TRUE]
    [] field = "persist" /\ ~ value -> [quick |-> FALSE, persist |-> FALSE]
    [] OTHER -> [preferences EXCEPT ![field] = value]

\* The first step of applyDeviceSecurity and of handleImportKeystore.
Remembering(a) ==
  IF a.security.store /\ a.preferences.persist THEN <<"persist">>
  ELSE IF a.security.store THEN <<"clear">> ELSE <<>>

\* Mutant of applyDeviceSecurity: quick unlock is left as it was.
applyDeviceSecurityOnly(a) == Remembering(a) \o <<"read", "show">>

applyDeviceSecurity(a) ==
  Remembering(a)
    \o (IF a.preferences.quick THEN <<"persist", "enable">>
        ELSE IF a.security.configured THEN <<"disable">> ELSE <<>>)
    \o <<"read", "show">>

-----------------------------------------------------------------------------
(* Taps: a handler up to its first await, with all it will do. *)

Writes(task) == \E i \in DOMAIN task.steps : Items(task.steps[i]) # {}

\* It is writing the secret and the flag, which belong together.
Pairing(task) == task.steps # <<>> /\ "secret" \in Items(Head(task.steps))
Tap == active /\ taps < MaxTaps /\ taps' = taps + 1

\* The state that a handler decides from is that of the vault.
Informed == app.security = getDeviceSecuritySnapshot.security

Promising == app.security.store /\ Informed /\ \A s \in Slots : ~ Writes(tasks[s])

\* A handler begins; those that write to the vault spoil each other's promise.
Begin(task) ==
  /\ Tap
  /\ \E s \in Slots :
       /\ tasks[s] = NoTask
       /\ tasks' = [x \in Slots |->
            IF x = s
            THEN [task EXCEPT !.items = Items(Head(task.steps)),
                              !.promise = IF Promising THEN @ ELSE Nothing]
            ELSE IF Writes(task) THEN [tasks[x] EXCEPT !.promise = Nothing] ELSE tasks[x]]
  /\ settled' = IF Writes(task) THEN Nothing ELSE settled
  /\ torn' = (torn \/ (Writes(task) /\ \E s \in Slots : Writes(tasks[s])))
  /\ UNCHANGED <<device, vault, app, active, ends, overtaken, late>>

\* The passphrase is deleted where quick unlock is configured or nothing is to
\* be remembered.  What a torn write left without the flag is never looked for.
LeftSecret == IF torn /\ ~ app.security.configured THEN vault.secret ELSE Nothing

\* What applyDeviceSecurity is for: the keystore is on the device if it is to
\* be remembered or unlocked quickly, and then with its passphrase.
Applied(ks, pass) ==
  IF app.preferences.quick THEN [keystore |-> ks, secret |-> pass, enabled |-> TRUE]
  ELSE IF app.preferences.persist THEN [keystore |-> ks, secret |-> LeftSecret, enabled |-> FALSE]
  ELSE EmptyVault

CreateWallet ==
  /\ app.keystore = Nothing
  /\ \E key \in Keys \ made, pass \in Passes :
       LET ks == [key |-> key, pass |-> pass]
       IN  /\ Begin([NoTask EXCEPT !.steps = applyDeviceSecurity(app) \o <<"opened">>,
                                   !.keystore = ks, !.pass = pass, !.promise = Applied(ks, pass)])
           /\ made' = made \cup {key}

UnlockWallet ==
  /\ app.keystore # Nothing /\ app.wallet = Nothing
  /\ \E pass \in Passes :
       Begin([NoTask EXCEPT !.steps = <<"decrypt">> \o applyDeviceSecurity(app) \o <<"unlocked">>,
                            !.keystore = app.keystore, !.pass = pass,
                            !.promise = Applied(app.keystore, pass)])
  /\ UNCHANGED made

BiometricUnlock ==
  /\ app.keystore # Nothing /\ app.wallet = Nothing /\ app.security.configured
  /\ Begin([NoTask EXCEPT !.steps = <<"read", "restore", "load", "decrypt", "opened">>,
                          !.keystore = app.keystore])
  /\ UNCHANGED made

\* Quick unlock stays if it is configured and wanted, with the passphrase of
\* the keystore before.
ImportKeystore ==
  /\ \E file \in Files :
       LET quick == app.security.configured /\ app.preferences.quick
       IN  Begin([NoTask EXCEPT
                    !.steps = Remembering(app)
                      \o (IF app.security.configured /\ ~ app.preferences.quick THEN <<"disable">> ELSE <<>>)
                      \o <<"adopted", "read", "show">>,
                    !.keystore = file,
                    !.promise = IF app.preferences.persist
                                THEN [keystore |-> file, enabled |-> quick,
                                      secret |-> IF quick THEN vault.secret ELSE LeftSecret]
                                ELSE EmptyVault])
  /\ UNCHANGED made

ForgetDeviceWallet ==
  /\ app.security.stored \/ app.keystore # Nothing
  /\ app.security.store
  /\ Begin([NoTask EXCEPT !.steps = <<"clear", "forgotten", "read", "show">>, !.promise = EmptyVault])
  /\ UNCHANGED made

lockWalletSession(a) == [a EXCEPT !.wallet = Nothing]

LockWallet ==
  /\ Tap
  /\ app.wallet # Nothing
  /\ app' = lockWalletSession(app)
  /\ overtaken' = FALSE
  /\ UNCHANGED <<device, vault, active, tasks, made, ends, settled, torn, late>>

\* The switches, each disabled where the device does not support it.
TogglePreference ==
  /\ Tap
  /\ \E field \in {"quick", "persist"}, value \in BOOLEAN :
       /\ IF field = "quick" THEN app.security.biometric ELSE app.security.store
       /\ app' = [app EXCEPT !.preferences = updateDevicePreference(@, field, value)]
  /\ UNCHANGED <<device, vault, active, tasks, made, ends, settled, torn, overtaken, late>>

-----------------------------------------------------------------------------
(* The app leaves the foreground, comes back, and is ended by the system.  *)

\* The listener sees the wallet of the last render.
Background ==
  /\ active /\ active' = FALSE
  /\ app' = lockWalletSession(app)
  /\ overtaken' = FALSE /\ late' = FALSE
  /\ UNCHANGED <<device, vault, tasks, made, taps, ends, settled, torn>>

Foreground ==
  /\ ~ active /\ active' = TRUE
  /\ UNCHANGED <<device, vault, app, tasks, made, taps, ends, settled, torn, overtaken, late>>

Booting == [NoTask EXCEPT !.steps = <<"read", "restore">>]
Booted == {[s \in Slots |-> IF s = b THEN Booting ELSE NoTask] : b \in Slots}

\* A write that was under way has reached the vault before, or never does.
EndApp ==
  /\ ends < MaxEnds /\ ends' = ends + 1
  /\ tasks' \in Booted
  /\ app' = NewApp /\ active' = TRUE
  /\ torn' = (torn \/ \E s \in Slots : Pairing(tasks[s]))
  /\ overtaken' = FALSE /\ late' = FALSE
  /\ UNCHANGED <<device, vault, made, taps, settled>>

-----------------------------------------------------------------------------
(* The awaits of a handler end, in any order over the handlers.            *)

At(s, step) == tasks[s].steps # <<>> /\ Head(tasks[s].steps) = step

\* Mutant of Following: what was written is under way again.
FollowingAgain(task) == IF Len(task.steps) = 1 THEN NoTask ELSE [task EXCEPT !.steps = Tail(@)]

Following(task) ==
  LET rest == Tail(task.steps)
  IN  IF rest = <<>> THEN NoTask ELSE [task EXCEPT !.steps = rest, !.items = Items(Head(rest))]

\* A handler that wrote and was not interfered with has kept its promise.
Advance(s, task) ==
  /\ tasks' = [tasks EXCEPT ![s] = Following(task)]
  /\ settled' = IF Len(task.steps) = 1 /\ task.promise # Nothing THEN task.promise ELSE settled

\* persistKeystoreOnDevice, clearDeviceWallet, enableBiometricUnlock and
\* disableBiometricUnlock: the items are written at once, in any order.
Written(task, item) ==
  CASE item = "keystore" /\ Head(task.steps) = "persist" -> task.keystore
    [] item = "secret" /\ Head(task.steps) = "enable" -> task.pass
    [] item = "enabled" -> Head(task.steps) = "enable"
    [] OTHER -> Nothing

Write(s) ==
  /\ \E item \in tasks[s].items :
       /\ device.store
       /\ At(s, "enable") => device.biometric
       /\ vault' = [vault EXCEPT ![item] = Written(tasks[s], item)]
       /\ LET left == tasks[s].items \ {item}
          IN  IF left = {} THEN Advance(s, tasks[s])
              ELSE tasks' = [tasks EXCEPT ![s].items = left] /\ UNCHANGED settled
  /\ UNCHANGED <<device, app, active, made, taps, ends, torn, overtaken, late>>

\* The reads of a snapshot are taken at one moment.
Read(s) ==
  /\ At(s, "read")
  /\ Advance(s, [tasks[s] EXCEPT !.seen = getDeviceSecuritySnapshot])
  /\ UNCHANGED <<device, vault, app, active, made, taps, ends, torn, overtaken, late>>

Show(s) ==
  /\ At(s, "show")
  /\ app' = Synced(app, tasks[s].seen)
  /\ Advance(s, tasks[s])
  /\ UNCHANGED <<device, vault, active, made, taps, ends, torn, overtaken, late>>

\* The stored keystore replaces the one shown, not the session.
Restore(s) ==
  /\ At(s, "restore")
  /\ LET stored == tasks[s].seen.keystore
         a == Synced(app, tasks[s].seen)
     IN  /\ app' = IF stored = Nothing THEN a ELSE [a EXCEPT !.keystore = stored]
         /\ overtaken' = (overtaken \/ (app.wallet # Nothing /\ app'.keystore # app.keystore))
  /\ Advance(s, tasks[s])
  /\ UNCHANGED <<device, vault, active, made, taps, ends, torn, late>>

\* Decryption fails with another passphrase.
Decrypt(s) ==
  /\ At(s, "decrypt")
  /\ tasks[s].pass = tasks[s].keystore.pass
  /\ Advance(s, tasks[s])
  /\ UNCHANGED <<device, vault, app, active, made, taps, ends, torn, overtaken, late>>

loadBiometricPassphrase(s) ==
  /\ At(s, "load")
  /\ device.store /\ device.biometric /\ vault.enabled /\ vault.secret # Nothing
  /\ Advance(s, [tasks[s] EXCEPT !.pass = vault.secret])
  /\ UNCHANGED <<device, vault, app, active, made, taps, ends, torn, overtaken, late>>

\* An unlock sets the wallet alone: another keystore may be shown by now.
Unlocked(s) ==
  /\ At(s, "unlocked")
  /\ app' = [app EXCEPT !.wallet = tasks[s].keystore.key]
  /\ overtaken' = (app.keystore # tasks[s].keystore)
  /\ late' = ~ active
  /\ Advance(s, tasks[s])
  /\ UNCHANGED <<device, vault, active, made, taps, ends, torn>>

\* The ends of handleCreateWallet and of handleBiometricUnlock.
Opened(s) ==
  /\ At(s, "opened")
  /\ app' = [app EXCEPT !.wallet = tasks[s].keystore.key, !.keystore = tasks[s].keystore]
  /\ overtaken' = FALSE
  /\ late' = ~ active
  /\ Advance(s, tasks[s])
  /\ UNCHANGED <<device, vault, active, made, taps, ends, torn>>

\* Mutant of Adopted: the session goes on.
AdoptedOpen(s) ==
  /\ At(s, "adopted")
  /\ app' = [app EXCEPT !.keystore = tasks[s].keystore]
  /\ Advance(s, tasks[s])
  /\ UNCHANGED <<device, vault, active, made, taps, ends, torn, overtaken, late>>

Adopted(s) ==
  /\ At(s, "adopted")
  /\ app' = [lockWalletSession(app) EXCEPT !.keystore = tasks[s].keystore]
  /\ overtaken' = FALSE
  /\ Advance(s, tasks[s])
  /\ UNCHANGED <<device, vault, active, made, taps, ends, torn, late>>

Forgotten(s) ==
  /\ At(s, "forgotten")
  /\ app' = [lockWalletSession(app) EXCEPT
               !.keystore = Nothing,
               !.preferences = [quick |-> FALSE, persist |-> FALSE]]
  /\ overtaken' = FALSE
  /\ Advance(s, tasks[s])
  /\ UNCHANGED <<device, vault, active, made, taps, ends, torn, late>>

Awaits == {"persist", "enable", "disable", "clear", "read", "decrypt", "load"}

\* Any await may fail, a cancelled prompt among them; the handler ends, but
\* what was issued with the failed write may still arrive.
Fail(s) ==
  /\ \E step \in Awaits : At(s, step)
  /\ \E rest \in SUBSET tasks[s].items :
       /\ rest # tasks[s].items \/ rest = {}
       /\ tasks' = [tasks EXCEPT ![s] =
            IF rest = {} THEN NoTask
            ELSE [tasks[s] EXCEPT !.steps = <<Head(@)>>, !.items = rest, !.promise = Nothing]]
  /\ torn' = (torn \/ Pairing(tasks[s]))
  /\ UNCHANGED <<device, vault, app, active, made, taps, ends, settled, overtaken, late>>

Init ==
  /\ device \in Devices
  /\ \E ks \in Files \cup {Nothing}, quick \in BOOLEAN :
       /\ ks # Nothing => device.store
       /\ quick => ks # Nothing
       /\ vault = [keystore |-> ks, enabled |-> quick, secret |-> IF quick THEN ks.pass ELSE Nothing]
  /\ made = {ks.key : ks \in Files}
  /\ app = NewApp /\ active = TRUE
  /\ tasks \in Booted
  /\ taps = 0 /\ ends = 0
  /\ settled = Nothing /\ torn = FALSE /\ overtaken = FALSE /\ late = FALSE

Next ==
  \/ CreateWallet \/ UnlockWallet \/ BiometricUnlock \/ ImportKeystore \/ ForgetDeviceWallet
  \/ LockWallet \/ TogglePreference
  \/ Background \/ Foreground \/ EndApp
  \/ \E s \in Slots :
       \/ Write(s) \/ Read(s) \/ Show(s) \/ Restore(s) \/ Decrypt(s) \/ loadBiometricPassphrase(s)
       \/ Unlocked(s) \/ Opened(s) \/ Adopted(s) \/ Forgotten(s) \/ Fail(s)

Spec == Init /\ [][Next]_vars

-----------------------------------------------------------------------------
\* Every variable has the shape of the state it stands for, and a handler only
\* has writes of the step that it is in under way.
TypeOK ==
  /\ device \in Devices /\ vault \in Vaults /\ app \in Apps /\ active \in BOOLEAN
  /\ tasks \in [Slots -> Tasks]
  /\ \A s \in Slots :
       tasks[s].items \subseteq (IF tasks[s].steps = <<>> THEN {} ELSE Items(Head(tasks[s].steps)))
  /\ made \subseteq Keys /\ taps \in 0 .. MaxTaps /\ ends \in 0 .. MaxEnds
  /\ settled \in Vaults \cup {Nothing} /\ torn \in BOOLEAN /\ overtaken \in BOOLEAN /\ late \in BOOLEAN

\* The wallet that signs is that of the keystore which the app shows and
\* exports, and of an app in the foreground, across imports, restores, forgotten
\* devices and restarts; only a handler that ends after another one replaced the
\* keystore, or that ends in the background, leaves them apart.
SessionIsCurrent ==
  app.wallet # Nothing =>
    /\ overtaken \/ (app.keystore # Nothing /\ app.keystore.key = app.wallet)
    /\ active \/ late

\* When a handler that knew the state of the device has ended without another
\* writer or a failure, the device holds just what its preferences asked for:
\* that keystore, and a quick unlock with its passphrase or none at all.  The
\* exception is a passphrase that an enable or disable which failed, was cut
\* off or ran beside another writer had left in the store without the flag:
\* applyDeviceSecurity looks at the flag alone, and leaves it there.
VaultSettles == settled # Nothing => vault = settled
=============================================================================
