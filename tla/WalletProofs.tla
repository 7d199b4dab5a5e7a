---------------------------- MODULE WalletProofs ----------------------------
(***************************************************************************)
(* Proofs about the two wallets: MobileWallet, for all wallets, passphrases, *)
(* devices and numbers of handlers under way, and WalletApp, the page, for *)
(* all wallets, passphrases, files and numbers of handlers.                *)
(***************************************************************************)
EXTENDS WalletApp, MobileWallet, SequenceTheorems, TLAPS

ItemNames == {"keystore", "secret", "enabled"}

\* What a handler has under way belongs to the step it is in.
ItemsFit(task) == task.items \subseteq (IF task.steps = <<>> THEN {} ELSE Items(Head(task.steps)))

\* What SessionIsCurrent needs: who sets the wallet has a keystore.
Named(task) ==
  task.keystore = Nothing => \A i \in DOMAIN task.steps : task.steps[i] \notin {"unlocked", "opened", "adopted"}

\* What TypeOK needs: who shows or restores a snapshot has read it just before.
Readies(step) == step \in {"show", "restore"}
ReadFirst(steps) == \A i \in DOMAIN steps : Readies(steps[i]) => i # 1 /\ steps[i - 1] = "read"
Readied(task) ==
  \A i \in DOMAIN task.steps :
    Readies(task.steps[i]) => IF i = 1 THEN task.seen # Nothing ELSE task.steps[i - 1] = "read"

(***************************************************************************)
(* What VaultSettles needs: the value that an item of the vault has after  *)
(* the steps that a handler has left.                                      *)
(***************************************************************************)
ValueOf(task, step, item) ==
  CASE item = "keystore" /\ step = "persist" -> task.keystore
    [] item = "secret" /\ step = "enable" -> task.pass
    [] item = "enabled" -> step = "enable"
    [] OTHER -> Nothing

Untouched(steps, item) == \A k \in DOMAIN steps : item \notin Items(steps[k])

\* The last of the steps that writes the item writes this value.
Leaves(task, steps, item, value) ==
  \E j \in DOMAIN steps :
    /\ item \in Items(steps[j])
    /\ \A k \in DOMAIN steps : item \in Items(steps[k]) => k <= j
    /\ ValueOf(task, steps[j], item) = value

\* The same while the items of the first step are still being written, and
\* the vault holds a value now.
Fulfils(task, steps, items, item, now, value) ==
  \/ Leaves(task, Tail(steps), item, value)
  \/ /\ Untouched(Tail(steps), item)
     /\ IF item \in items THEN ValueOf(task, Head(steps), item) = value ELSE now = value

\* What keeps a promise.
Keeps(task, items, v) ==
  \A item \in ItemNames :
    Fulfils(task, task.steps, items, item, v[item], task.promise[item])

\* The steps of handlers that know their passphrase from the start.
Knowing == Steps \ {"load"}

PromisesHold ==
  \A s \in Slots :
    tasks[s].promise # Nothing =>
      /\ tasks[s].steps \in Seq(Knowing)
      /\ \A x \in Slots \ {s} : ~ Writes(tasks[x])
      /\ Keeps(tasks[s], tasks[s].items, vault)

SettledStays == settled # Nothing => \A s \in Slots : ~ Writes(tasks[s])

Ready == \A s \in Slots : Named(tasks[s]) /\ Readied(tasks[s])
SessionInv == SessionIsCurrent /\ Ready
VaultInv == PromisesHold /\ SettledStays /\ VaultSettles
Core == TypeOK /\ SessionInv /\ VaultInv

(***************************************************************************)
(* Unless a write was torn: one handler writes at a time, and a secret in  *)
(* the vault has its flag, but while that handler writes the two.          *)
(***************************************************************************)
Paired(v) == v.secret # Nothing => v.enabled
Pending(task) ==
  Pairing(task) /\ (IF Head(task.steps) = "enable" THEN "enabled" ELSE "secret") \in task.items
Half(task, v) ==
  Pairing(task) /\ ~ Pending(task) =>
    IF Head(task.steps) = "enable" THEN v.enabled ELSE v.secret = Nothing

LoneWriter == \A s, t \in Slots : Writes(tasks[s]) /\ Writes(tasks[t]) => s = t
Whole ==
  ~ torn =>
    /\ LoneWriter
    /\ \A s \in Slots : Half(tasks[s], vault)
    /\ Paired(vault) \/ \E s \in Slots : Pending(tasks[s])

Inv == Core /\ Whole

-----------------------------------------------------------------------------
(* Steps of handlers. *)

LEMMA ItemsAreNames == \A step \in Steps : Items(step) \subseteq ItemNames
  BY DEF Items, Steps, ItemNames

LEMMA OneStep ==
  ASSUME NEW a \in Steps
  PROVE  /\ <<a>> \in Seq(Steps) /\ <<a>> # <<>> /\ DOMAIN <<a>> = {1} /\ <<a>>[1] = a
         /\ \A i \in DOMAIN <<a>> : <<a>>[i] = a
  OBVIOUS

LEMMA TwoSteps ==
  ASSUME NEW a \in Steps, NEW b \in Steps
  PROVE  /\ <<a, b>> \in Seq(Steps) /\ <<a, b>> # <<>>
         /\ DOMAIN <<a, b>> = {1, 2} /\ <<a, b>>[1] = a /\ <<a, b>>[2] = b
  OBVIOUS

LEMMA NoSteps == <<>> \in Seq(Steps) /\ DOMAIN <<>> = {}
  BY EmptySeq

\* The head of a joined sequence, and its elements.
LEMMA Joined ==
  ASSUME NEW s \in Seq(Steps), NEW t \in Seq(Steps)
  PROVE  /\ s \o t \in Seq(Steps)
         /\ s # <<>> \/ t # <<>> => s \o t # <<>>
         /\ \A i \in DOMAIN s : i \in DOMAIN (s \o t) /\ (s \o t)[i] = s[i]
         /\ \A i \in DOMAIN t : Len(s) + i \in DOMAIN (s \o t) /\ (s \o t)[Len(s) + i] = t[i]
         /\ \A i \in DOMAIN (s \o t) : i \in DOMAIN s \/ i - Len(s) \in DOMAIN t
<1>1. /\ DOMAIN s = 1 .. Len(s) /\ DOMAIN t = 1 .. Len(t) /\ Len(s) \in Nat /\ Len(t) \in Nat
      /\ s \o t \in Seq(Steps) /\ Len(s \o t) = Len(s) + Len(t)
      /\ DOMAIN (s \o t) = 1 .. Len(s \o t)
  BY LenProperties, ConcatProperties
<1>2. s # <<>> \/ t # <<>> => s \o t # <<>>
  BY <1>1, EmptySeq
<1>3. \A i \in 1 .. Len(s) + Len(t) :
        (s \o t)[i] = IF i <= Len(s) THEN s[i] ELSE t[i - Len(s)]
  BY ConcatProperties
<1>4. \A i \in DOMAIN t : Len(s) + i \in DOMAIN (s \o t) /\ (s \o t)[Len(s) + i] = t[i]
  BY <1>1, <1>3
<1> QED BY <1>1, <1>2, <1>3, <1>4

\* Knowing steps are steps, and stay knowing when joined or passed.
LEMMA KnowingSteps ==
  /\ \A s \in Seq(Knowing) : s \in Seq(Steps)
  /\ \A s, t \in Seq(Knowing) : s \o t \in Seq(Knowing)
  /\ \A a \in Knowing : <<a>> \in Seq(Knowing)
  /\ \A a, b \in Knowing : <<a, b>> \in Seq(Knowing)
  /\ <<>> \in Seq(Knowing)
  /\ \A s \in Seq(Knowing) : s # <<>> => Head(s) \in Knowing /\ Tail(s) \in Seq(Knowing)
<1>1. Knowing \subseteq Steps
  BY DEF Knowing
<1>2. \A s \in Seq(Knowing) : s \in Seq(Steps)
  BY <1>1, SeqMonotonic
<1>3. \A s, t \in Seq(Knowing) : s \o t \in Seq(Knowing)
  BY ConcatProperties
<1>4. /\ \A a \in Knowing : <<a>> \in Seq(Knowing)
      /\ \A a, b \in Knowing : <<a, b>> \in Seq(Knowing)
  OBVIOUS
<1>5. <<>> \in Seq(Knowing)
  BY EmptySeq
<1>6. \A s \in Seq(Knowing) : s # <<>> => Head(s) \in Knowing /\ Tail(s) \in Seq(Knowing)
  BY HeadTailProperties
<1> QED BY <1>2, <1>3, <1>4, <1>5, <1>6

LEMMA TailSteps ==
  ASSUME NEW steps \in Seq(Steps), steps # <<>>
  PROVE  /\ 1 \in DOMAIN steps /\ Head(steps) = steps[1] /\ Head(steps) \in Steps
         /\ Tail(steps) \in Seq(Steps)
         /\ Tail(steps) # <<>> => Head(Tail(steps)) = steps[2] /\ steps[2] \in Steps
         /\ Len(steps) = 1 <=> Tail(steps) = <<>>
         /\ \A i \in DOMAIN Tail(steps) : i + 1 \in DOMAIN steps /\ Tail(steps)[i] = steps[i + 1]
         /\ \A i \in DOMAIN steps : i = 1 \/ i - 1 \in DOMAIN Tail(steps)
<1>1. /\ Len(steps) \in Nat \ {0} /\ DOMAIN steps = 1 .. Len(steps)
      /\ Tail(steps) \in Seq(Steps) /\ Len(Tail(steps)) = Len(steps) - 1
      /\ Head(steps) \in Steps /\ Head(steps) = steps[1]
      /\ \A i \in 1 .. Len(Tail(steps)) : Tail(steps)[i] = steps[i + 1]
  BY LenProperties, EmptySeq, HeadTailProperties
<1>2. DOMAIN Tail(steps) = 1 .. Len(Tail(steps))
  BY <1>1, LenProperties
<1>3. Tail(steps) = <<>> <=> Len(Tail(steps)) = 0
  BY <1>1, EmptySeq
<1>4. Tail(steps) # <<>> => Head(Tail(steps)) = Tail(steps)[1]
  BY <1>1
<1>5. Tail(steps) # <<>> => Tail(steps)[1] = steps[2] /\ steps[2] \in Steps
  BY <1>1, <1>3, ElementOfSeq
<1> QED BY <1>1, <1>2, <1>3, <1>4, <1>5

-----------------------------------------------------------------------------
(* Types. *)

LEMMA NoTaskType == NoTask \in Tasks /\ ItemsFit(NoTask)
  BY NoSteps DEF NoTask, Tasks, ItemsFit

LEMMA BootingType == Booting \in Tasks /\ ItemsFit(Booting)
<1>1. <<"read", "restore">> \in Seq(Steps)
  BY TwoSteps DEF Steps
<1> QED BY <1>1 DEF Booting, NoTask, Tasks, ItemsFit

LEMMA BootedTypes ==
  ASSUME NEW t \in Booted
  PROVE  t \in [Slots -> Tasks] /\ \A s \in Slots : ItemsFit(t[s])
  BY NoTaskType, BootingType DEF Booted

LEMMA FollowingType ==
  ASSUME NEW task \in Tasks, task.steps # <<>>
  PROVE  Following(task) \in Tasks /\ ItemsFit(Following(task))
<1> DEFINE rest == Tail(task.steps)
<1>1. CASE rest = <<>>
  BY <1>1, NoTaskType DEF Following
<1>2. CASE rest # <<>>
  <2>1. rest \in Seq(Steps) /\ Items(Head(rest)) \in SUBSET ItemNames
    BY <1>2, TailSteps, ItemsAreNames DEF Tasks
  <2>2. Following(task) = [task EXCEPT !.steps = rest, !.items = Items(Head(rest))]
    BY <1>2 DEF Following
  <2> HIDE DEF rest
  <2> QED BY <1>2, <2>1, <2>2 DEF Tasks, ItemsFit, ItemNames
<1> QED BY <1>1, <1>2

LEMMA RememberingType ==
  ASSUME NEW a
  PROVE  Remembering(a) \in Seq(Steps) /\ Remembering(a) \in Seq(Knowing)
  BY KnowingSteps, OneStep, NoSteps DEF Remembering, Steps, Knowing

\* The quick unlock part of applyDeviceSecurity.
QuickPart(a) ==
  IF a.preferences.quick THEN <<"persist", "enable">>
  ELSE IF a.security.configured THEN <<"disable">> ELSE <<>>

LEMMA QuickPartType ==
  ASSUME NEW a
  PROVE  QuickPart(a) \in Seq(Steps) /\ QuickPart(a) \in Seq(Knowing)
<1>1. /\ <<"persist", "enable">> \in Seq(Knowing) /\ <<"disable">> \in Seq(Knowing)
      /\ <<>> \in Seq(Knowing)
  BY KnowingSteps DEF Steps, Knowing
<1>2. QuickPart(a) \in Seq(Knowing)
  BY <1>1 DEF QuickPart
<1> QED BY <1>2, KnowingSteps

LEMMA ApplyType ==
  ASSUME NEW a
  PROVE  /\ applyDeviceSecurity(a) = Remembering(a) \o QuickPart(a) \o <<"read", "show">>
         /\ Remembering(a) \o QuickPart(a) \in Seq(Steps) /\ <<"read", "show">> \in Seq(Steps)
         /\ applyDeviceSecurity(a) \in Seq(Steps) /\ applyDeviceSecurity(a) # <<>>
         /\ applyDeviceSecurity(a) \in Seq(Knowing)
<1>1. <<"read", "show">> \in Seq(Steps) /\ <<"read", "show">> # <<>> /\ <<"read", "show">> \in Seq(Knowing)
  BY TwoSteps, KnowingSteps DEF Steps, Knowing
<1>2. applyDeviceSecurity(a) = Remembering(a) \o QuickPart(a) \o <<"read", "show">>
  BY DEF applyDeviceSecurity, QuickPart
<1>3. Remembering(a) \o QuickPart(a) \in Seq(Steps) /\ Remembering(a) \o QuickPart(a) \in Seq(Knowing)
  BY RememberingType, QuickPartType, Joined, KnowingSteps
<1> QED BY <1>1, <1>2, <1>3, Joined, KnowingSteps

LEMMA SnapshotType == TypeOK => getDeviceSecuritySnapshot \in Snapshots
  BY MobileWalletAssumption DEF TypeOK, getDeviceSecuritySnapshot, Snapshots, Securities, Vaults

LEMMA SyncedType ==
  ASSUME NEW a \in Apps, NEW seen \in Snapshots
  PROVE  /\ Synced(a, seen) \in Apps
         /\ Synced(a, seen).wallet = a.wallet /\ Synced(a, seen).keystore = a.keystore
  BY DEF Synced, Apps, Snapshots, Preferences, Securities

LEMMA AppliedType ==
  ASSUME TypeOK, NEW ks \in Keystores, NEW pass \in Passes
  PROVE  Applied(ks, pass) \in Vaults
  BY DEF Applied, EmptyVault, Vaults, LeftSecret, TypeOK

LEMMA EmptyVaultType == EmptyVault \in Vaults
  BY DEF EmptyVault, Vaults

LEMMA TapTypes ==
  ASSUME TypeOK, Tap
  PROVE  taps' \in 0 .. MaxTaps
  BY MobileWalletAssumption DEF TypeOK, Tap

LEMMA BeginTypes ==
  ASSUME TypeOK, NEW task \in Tasks, task.steps # <<>>, Begin(task), made' \subseteq Keys
  PROVE  TypeOK'
<1>1. PICK s \in Slots :
        tasks' = [x \in Slots |->
            IF x = s
            THEN [task EXCEPT !.items = Items(Head(task.steps)),
                              !.promise = IF Promising THEN @ ELSE Nothing]
            ELSE IF Writes(task) THEN [tasks[x] EXCEPT !.promise = Nothing] ELSE tasks[x]]
  BY DEF Begin
<1>2. Items(Head(task.steps)) \in SUBSET ItemNames
  BY TailSteps, ItemsAreNames DEF Tasks
<1>3. ASSUME NEW x \in Slots PROVE tasks'[x] \in Tasks /\ ItemsFit(tasks'[x])
  <2>1. tasks[x] \in Tasks /\ ItemsFit(tasks[x])
    BY DEF TypeOK, ItemsFit
  <2>2. CASE x = s
    BY <1>1, <1>2, <2>2 DEF Tasks, ItemsFit, ItemNames
  <2>3. CASE x # s
    BY <1>1, <2>1, <2>3 DEF Tasks, ItemsFit
  <2> QED BY <2>2, <2>3
<1>4. tasks' \in [Slots -> Tasks]
  BY <1>1, <1>3
<1>5. taps' \in 0 .. MaxTaps
  BY TapTypes DEF Begin
<1>6. torn' \in BOOLEAN
  BY DEF Begin, TypeOK
<1> QED BY <1>3, <1>4, <1>5, <1>6 DEF Begin, TypeOK, ItemsFit

\* A step of a handler, up to the next await.
LEMMA AdvanceTypes ==
  ASSUME TypeOK, NEW s \in Slots, NEW task \in Tasks, task.steps # <<>>, Advance(s, task)
  PROVE  /\ tasks' \in [Slots -> Tasks]
         /\ \A x \in Slots : ItemsFit(tasks'[x])
         /\ settled' \in Vaults \cup {Nothing}
<1>1. tasks' = [tasks EXCEPT ![s] = Following(task)]
  BY DEF Advance
<1>2. Following(task) \in Tasks /\ ItemsFit(Following(task))
  BY FollowingType
<1>3. settled' \in Vaults \cup {Nothing}
  BY DEF Advance, TypeOK, Tasks
<1> QED BY <1>1, <1>2, <1>3 DEF TypeOK, ItemsFit

LEMMA BusyTask ==
  ASSUME TypeOK, NEW s \in Slots
  PROVE  /\ tasks[s] \in Tasks /\ ItemsFit(tasks[s])
         /\ \A step : At(s, step) => tasks[s].steps # <<>>
         /\ tasks[s].items # {} => tasks[s].steps # <<>>
  BY DEF TypeOK, ItemsFit, At

LEMMA WriteTypes ==
  ASSUME TypeOK, NEW s \in Slots, NEW item \in tasks[s].items
  PROVE  /\ item \in ItemNames
         /\ [vault EXCEPT ![item] = Written(tasks[s], item)] \in Vaults
<1>1. item \in ItemNames
  BY BusyTask DEF Tasks, ItemNames
<1>2. tasks[s].keystore \in Keystores \cup {Nothing} /\ tasks[s].pass \in Passes \cup {Nothing}
  BY BusyTask DEF Tasks
<1>3. vault \in Vaults
  BY DEF TypeOK
<1>4. CASE item = "keystore"
  <2>1. Written(tasks[s], item) \in Keystores \cup {Nothing}
    BY <1>2, <1>4 DEF Written
  <2> QED BY <1>1, <1>3, <1>4, <2>1 DEF Vaults
<1>5. CASE item = "secret"
  <2>1. Written(tasks[s], item) \in Passes \cup {Nothing}
    BY <1>2, <1>5 DEF Written
  <2> QED BY <1>1, <1>3, <1>5, <2>1 DEF Vaults
<1>6. CASE item = "enabled"
  <2>1. Written(tasks[s], item) \in BOOLEAN
    BY <1>6 DEF Written
  <2> QED BY <1>1, <1>3, <1>6, <2>1 DEF Vaults
<1> QED BY <1>1, <1>4, <1>5, <1>6 DEF ItemNames

LEMMA InitTypes == Init => TypeOK
<1> SUFFICES ASSUME Init PROVE TypeOK
  OBVIOUS
<1>1. Nothing \notin Keystores /\ Files \subseteq Keystores
  BY MobileWalletAssumption
<1>2. vault \in Vaults
  BY <1>1 DEF Init, Vaults, Keystores
<1>3. app \in Apps
  BY DEF Init, NewApp, DEFAULT_DEVICE_SECURITY, Apps, Securities, Preferences
<1>4. tasks \in [Slots -> Tasks] /\ \A s \in Slots : ItemsFit(tasks[s])
  BY BootedTypes DEF Init
<1>5. made \subseteq Keys
  BY <1>1 DEF Init, Keystores
<1>6. 0 \in 0 .. MaxTaps /\ 0 \in 0 .. MaxEnds
  BY MobileWalletAssumption
<1> QED BY <1>2, <1>3, <1>4, <1>5, <1>6 DEF Init, TypeOK, ItemsFit

-----------------------------------------------------------------------------
(* What the vault will hold. *)

\* A sequence of steps, seen from its first one.
LEMMA SplitSteps ==
  ASSUME NEW task, NEW steps \in Seq(Steps), steps # <<>>, NEW item, NEW now, NEW value,
         Leaves(task, steps, item, value) \/ (Untouched(steps, item) /\ now = value)
  PROVE  Fulfils(task, steps, Items(Head(steps)), item, now, value)
<1> DEFINE rest == Tail(steps)
<1>1. /\ 1 \in DOMAIN steps /\ Head(steps) = steps[1]
      /\ \A i \in DOMAIN rest : i + 1 \in DOMAIN steps /\ rest[i] = steps[i + 1]
      /\ \A i \in DOMAIN steps : i = 1 \/ i - 1 \in DOMAIN rest
      /\ DOMAIN steps \subseteq Nat /\ DOMAIN rest \subseteq Nat \ {0}
  BY TailSteps, LenProperties
<1> HIDE DEF rest
<1>2. CASE Untouched(steps, item) /\ now = value
  BY <1>1, <1>2 DEF Untouched, Fulfils, rest
<1>3. CASE Leaves(task, steps, item, value)
  <2>1. PICK j \in DOMAIN steps :
          /\ item \in Items(steps[j])
          /\ \A k \in DOMAIN steps : item \in Items(steps[k]) => k <= j
          /\ ValueOf(task, steps[j], item) = value
    BY <1>3 DEF Leaves
  <2>2. CASE j = 1
    <3>1. Untouched(rest, item)
      BY <1>1, <2>1, <2>2 DEF Untouched
    <3> QED BY <1>1, <2>1, <2>2, <3>1 DEF Fulfils, rest
  <2>3. CASE j # 1
    <3>1. j - 1 \in DOMAIN rest /\ rest[j - 1] = steps[j]
      BY <1>1, <2>3
    <3>2. \A k \in DOMAIN rest : item \in Items(rest[k]) => k <= j - 1
      BY <1>1, <2>1
    <3>3. Leaves(task, rest, item, value)
      BY <2>1, <3>1, <3>2 DEF Leaves
    <3> QED BY <3>3 DEF Fulfils, rest
  <2> QED BY <2>2, <2>3
<1> QED BY <1>2, <1>3

\* Joined steps leave what the second part leaves, or else the first.
LEMMA JoinedLeave ==
  ASSUME NEW task, NEW s \in Seq(Steps), NEW t \in Seq(Steps), NEW item, NEW value
  PROVE  /\ Leaves(task, t, item, value) => Leaves(task, s \o t, item, value)
         /\ Leaves(task, s, item, value) /\ Untouched(t, item) => Leaves(task, s \o t, item, value)
         /\ Untouched(s, item) /\ Untouched(t, item) => Untouched(s \o t, item)
<1> DEFINE u == s \o t
<1>1. /\ \A i \in DOMAIN s : i \in DOMAIN u /\ u[i] = s[i]
      /\ \A i \in DOMAIN t : Len(s) + i \in DOMAIN u /\ u[Len(s) + i] = t[i]
      /\ \A i \in DOMAIN u : i \in DOMAIN s \/ i - Len(s) \in DOMAIN t
  BY Joined
<1>2. /\ DOMAIN s = 1 .. Len(s) /\ Len(s) \in Nat /\ DOMAIN t \subseteq Nat \ {0}
      /\ DOMAIN u \subseteq Nat
  BY LenProperties, Joined
<1> HIDE DEF u
<1>3. ASSUME NEW j \in DOMAIN t, \A k \in DOMAIN t : item \in Items(t[k]) => k <= j
      PROVE  \A k \in DOMAIN u : item \in Items(u[k]) => k <= Len(s) + j
  <2> SUFFICES ASSUME NEW k \in DOMAIN u, item \in Items(u[k]) PROVE k <= Len(s) + j
    OBVIOUS
  <2>1. CASE k \in DOMAIN s
    BY <1>2, <2>1
  <2>2. CASE k - Len(s) \in DOMAIN t
    <3>1. u[k] = t[k - Len(s)]
      BY <1>1, <1>2, <2>2
    <3> QED BY <1>2, <1>3, <2>2, <3>1
  <2> QED BY <1>1, <2>1, <2>2
<1>4. Leaves(task, t, item, value) => Leaves(task, u, item, value)
  BY <1>1, <1>3 DEF Leaves
<1>5. ASSUME Untouched(t, item)
      PROVE  \A k \in DOMAIN u : item \in Items(u[k]) => k \in DOMAIN s /\ u[k] = s[k]
  <2> SUFFICES ASSUME NEW k \in DOMAIN u, item \in Items(u[k]) PROVE k \in DOMAIN s
    BY <1>1
  <2>1. CASE k - Len(s) \in DOMAIN t
    <3>1. u[k] = t[k - Len(s)]
      BY <1>1, <1>2, <2>1
    <3> QED BY <1>5, <2>1, <3>1 DEF Untouched
  <2> QED BY <1>1, <2>1
<1>6. Leaves(task, s, item, value) /\ Untouched(t, item) => Leaves(task, u, item, value)
  BY <1>1, <1>5 DEF Leaves
<1>7. Untouched(s, item) /\ Untouched(t, item) => Untouched(u, item)
  BY <1>5 DEF Untouched
<1> QED BY <1>4, <1>6, <1>7 DEF u

LEMMA ItemsOfSteps ==
  /\ Items("persist") = {"keystore"} /\ Items("clear") = ItemNames
  /\ Items("enable") = {"secret", "enabled"} /\ Items("disable") = {"secret", "enabled"}
  /\ \A step \in {"read", "show", "restore", "decrypt", "load", "unlocked", "opened", "adopted", "forgotten"} :
       Items(step) = {}
  BY DEF Items, ItemNames

\* What single steps leave.
LEMMA OneLeaves ==
  ASSUME NEW task, NEW step \in Steps, NEW item \in ItemNames
  PROVE  IF item \in Items(step) THEN Leaves(task, <<step>>, item, ValueOf(task, step, item))
         ELSE Untouched(<<step>>, item)
<1>1. DOMAIN <<step>> = {1} /\ <<step>>[1] = step
  BY OneStep
<1> QED BY <1>1 DEF Leaves, Untouched

LEMMA TwoLeave ==
  ASSUME NEW task, NEW a \in Steps, NEW b \in Steps, NEW item \in ItemNames
  PROVE  /\ item \in Items(b) => Leaves(task, <<a, b>>, item, ValueOf(task, b, item))
         /\ item \in Items(a) /\ item \notin Items(b) => Leaves(task, <<a, b>>, item, ValueOf(task, a, item))
         /\ item \notin Items(a) /\ item \notin Items(b) => Untouched(<<a, b>>, item)
<1>1. DOMAIN <<a, b>> = {1, 2} /\ <<a, b>>[1] = a /\ <<a, b>>[2] = b
  BY TwoSteps
<1> QED BY <1>1 DEF Leaves, Untouched

\* What handlers are joined of: each part reads before it shows.
LEMMA ReadFirstParts ==
  /\ \A step \in Steps : ~ Readies(step) => ReadFirst(<<step>>)
  /\ ReadFirst(<<"read", "show">>) /\ ReadFirst(<<"persist", "enable">>) /\ ReadFirst(<<>>)
<1>1. \A step \in Steps : DOMAIN <<step>> = {1} /\ <<step>>[1] = step
  BY OneStep
<1>2. /\ DOMAIN <<"read", "show">> = {1, 2} /\ <<"read", "show">>[1] = "read"
      /\ DOMAIN <<"persist", "enable">> = {1, 2} /\ <<"persist", "enable">>[1] = "persist"
      /\ <<"persist", "enable">>[2] = "enable"
  BY TwoSteps DEF Steps
<1> QED BY <1>1, <1>2, NoSteps DEF ReadFirst, Readies

LEMMA ReadFirstJoined ==
  ASSUME NEW s \in Seq(Steps), NEW t \in Seq(Steps), ReadFirst(s), ReadFirst(t)
  PROVE  ReadFirst(s \o t)
<1> DEFINE u == s \o t
<1>1. /\ \A i \in DOMAIN s : i \in DOMAIN u /\ u[i] = s[i]
      /\ \A i \in DOMAIN t : Len(s) + i \in DOMAIN u /\ u[Len(s) + i] = t[i]
      /\ \A i \in DOMAIN u : i \in DOMAIN s \/ i - Len(s) \in DOMAIN t
  BY Joined
<1>2. /\ DOMAIN s = 1 .. Len(s) /\ Len(s) \in Nat /\ DOMAIN t = 1 .. Len(t) /\ Len(t) \in Nat
      /\ DOMAIN u \subseteq Nat
  BY LenProperties, Joined
<1> HIDE DEF u
<1>3. ASSUME NEW i \in DOMAIN u, Readies(u[i]) PROVE i # 1 /\ u[i - 1] = "read"
  <2>1. CASE i \in DOMAIN s
    <3>1. i # 1 /\ s[i - 1] = "read"
      BY <1>1, <1>3, <2>1 DEF ReadFirst
    <3>2. i - 1 \in DOMAIN s
      BY <1>2, <2>1, <3>1
    <3> QED BY <1>1, <3>1, <3>2
  <2>2. CASE i - Len(s) \in DOMAIN t
    <3>1. u[i] = t[i - Len(s)]
      BY <1>1, <1>2, <2>2
    <3>2. i - Len(s) # 1 /\ t[i - Len(s) - 1] = "read"
      BY <1>3, <2>2, <3>1 DEF ReadFirst
    <3>3. i - Len(s) - 1 \in DOMAIN t /\ Len(s) + (i - Len(s) - 1) = i - 1 /\ i # 1
      BY <1>2, <2>2, <3>2
    <3> QED BY <1>1, <3>2, <3>3
  <2> QED BY <1>1, <2>1, <2>2
<1> QED BY <1>3 DEF ReadFirst, u

LEMMA NoneUntouched == \A item : Untouched(<<>>, item)
  BY NoSteps DEF Untouched

\* What a handler leaves of the items it is asked about, if the vault is as
\* its page shows it.
Left(task, steps, item, value) ==
  Leaves(task, steps, item, value) \/ (Untouched(steps, item) /\ vault[item] = value)

\* The first part of applyDeviceSecurity and of an import.
LEMMA RememberingLeaves ==
  ASSUME NEW task, NEW a, a.security.store
  PROVE  IF a.preferences.persist
         THEN /\ Leaves(task, Remembering(a), "keystore", task.keystore)
              /\ Untouched(Remembering(a), "secret") /\ Untouched(Remembering(a), "enabled")
         ELSE /\ Leaves(task, Remembering(a), "keystore", Nothing)
              /\ Leaves(task, Remembering(a), "secret", Nothing)
              /\ Leaves(task, Remembering(a), "enabled", FALSE)
<1>1. CASE a.preferences.persist
  <2>1. Remembering(a) = <<"persist">>
    BY <1>1 DEF Remembering
  <2>2. "persist" \in Steps
    BY DEF Steps
  <2>3. Leaves(task, <<"persist">>, "keystore", ValueOf(task, "persist", "keystore"))
    BY <2>2, OneLeaves, ItemsOfSteps DEF ItemNames
  <2>4. Untouched(<<"persist">>, "secret") /\ Untouched(<<"persist">>, "enabled")
    BY <2>2, OneLeaves, ItemsOfSteps DEF ItemNames
  <2> QED BY <1>1, <2>1, <2>3, <2>4 DEF ValueOf
<1>2. CASE ~ a.preferences.persist
  <2>1. Remembering(a) = <<"clear">>
    BY <1>2 DEF Remembering
  <2>2. "clear" \in Steps
    BY DEF Steps
  <2>3. \A item \in ItemNames : Leaves(task, <<"clear">>, item, ValueOf(task, "clear", item))
    BY <2>2, OneLeaves, ItemsOfSteps
  <2>4. /\ ValueOf(task, "clear", "keystore") = Nothing
        /\ ValueOf(task, "clear", "secret") = Nothing
        /\ ValueOf(task, "clear", "enabled") = FALSE
    BY DEF ValueOf
  <2> QED BY <1>2, <2>1, <2>3, <2>4 DEF ItemNames
<1> QED BY <1>1, <1>2

\* A part that does not touch the item changes nothing of what is left.
LEMMA LeftJoined ==
  ASSUME NEW task, NEW s \in Seq(Steps), NEW t \in Seq(Steps), NEW item, NEW value
  PROVE  /\ Untouched(s, item) /\ Left(task, t, item, value) => Left(task, s \o t, item, value)
         /\ Left(task, s, item, value) /\ Untouched(t, item) => Left(task, s \o t, item, value)
         /\ Leaves(task, t, item, value) => Left(task, s \o t, item, value)
  BY JoinedLeave DEF Left

LEMMA ApplyReadsFirst == \A a : ReadFirst(applyDeviceSecurity(a)) /\ ReadFirst(Remembering(a))
<1> SUFFICES ASSUME NEW a PROVE ReadFirst(applyDeviceSecurity(a)) /\ ReadFirst(Remembering(a))
  OBVIOUS
<1>1. /\ ReadFirst(<<"persist">>) /\ ReadFirst(<<"clear">>) /\ ReadFirst(<<"disable">>)
      /\ ReadFirst(<<"read", "show">>) /\ ReadFirst(<<"persist", "enable">>) /\ ReadFirst(<<>>)
  BY ReadFirstParts DEF Steps, Readies
<1>2. ReadFirst(Remembering(a)) /\ ReadFirst(QuickPart(a))
  BY <1>1 DEF Remembering, QuickPart
<1>3. ReadFirst(Remembering(a) \o QuickPart(a))
  BY <1>2, RememberingType, QuickPartType, ReadFirstJoined
<1> QED BY <1>1, <1>2, <1>3, ApplyType, ReadFirstJoined

\* The page shows the vault as it is.
LEMMA InformedVault ==
  ASSUME TypeOK, app.security.store, Informed
  PROVE  device.store /\ app.security.configured = vault.enabled
  BY DEF TypeOK, Informed, getDeviceSecuritySnapshot, Vaults, Apps, Securities

LEMMA AppliedIsLeft ==
  ASSUME TypeOK, app.security.store, Informed, torn \/ Paired(vault),
         NEW task, task.keystore \in Keystores
  PROVE  \A item \in ItemNames :
           Left(task, applyDeviceSecurity(app), item, Applied(task.keystore, task.pass)[item])
<1> DEFINE first == Remembering(app)
           quick == QuickPart(app)
           promise == Applied(task.keystore, task.pass)
<1>1. first \in Seq(Steps) /\ quick \in Seq(Steps) /\ first \o quick \in Seq(Steps)
      /\ <<"read", "show">> \in Seq(Steps)
  BY RememberingType, QuickPartType, ApplyType
<1>2. \A item \in ItemNames : Untouched(<<"read", "show">>, item)
  <2> SUFFICES ASSUME NEW item \in ItemNames PROVE Untouched(<<"read", "show">>, item)
    OBVIOUS
  <2>1. "read" \in Steps /\ "show" \in Steps
    BY DEF Steps
  <2>2. item \notin Items("read") /\ item \notin Items("show")
    BY ItemsOfSteps
  <2> QED BY <2>1, <2>2, TwoLeave
<1>3. ASSUME NEW item \in ItemNames, NEW value, Left(task, first \o quick, item, value)
      PROVE  Left(task, applyDeviceSecurity(app), item, value)
  BY <1>1, <1>2, <1>3, ApplyType, LeftJoined
<1>4. CASE app.preferences.quick
  <2>1. quick = <<"persist", "enable">> /\ "persist" \in Steps /\ "enable" \in Steps
    BY <1>4 DEF QuickPart, Steps
  <2>2. /\ Leaves(task, quick, "keystore", ValueOf(task, "persist", "keystore"))
        /\ Leaves(task, quick, "secret", ValueOf(task, "enable", "secret"))
        /\ Leaves(task, quick, "enabled", ValueOf(task, "enable", "enabled"))
    BY <2>1, TwoLeave, ItemsOfSteps DEF ItemNames
  <2>3. /\ Leaves(task, quick, "keystore", promise.keystore)
        /\ Leaves(task, quick, "secret", promise.secret)
        /\ Leaves(task, quick, "enabled", promise.enabled)
    BY <1>4, <2>2 DEF ValueOf, Applied
  <2> HIDE DEF first, quick, promise
  <2>4. \A item \in ItemNames : Left(task, first \o quick, item, promise[item])
    BY <1>1, <2>3, LeftJoined DEF ItemNames
  <2> QED BY <1>3, <2>4 DEF ItemNames, promise
<1>5. CASE ~ app.preferences.quick
  <2>1. /\ promise.keystore = IF app.preferences.persist THEN task.keystore ELSE Nothing
        /\ promise.enabled = FALSE
    BY <1>5 DEF Applied, EmptyVault
  <2>6. promise.secret = IF app.preferences.persist THEN LeftSecret ELSE Nothing
    BY <1>5 DEF Applied, EmptyVault
  <2>2. /\ Leaves(task, first, "keystore", promise.keystore)
        /\ IF app.preferences.persist THEN Untouched(first, "enabled") /\ Untouched(first, "secret")
           ELSE Leaves(task, first, "enabled", FALSE) /\ Leaves(task, first, "secret", Nothing)
    BY <2>1, RememberingLeaves
  <2>3. Untouched(quick, "keystore")
    BY <1>5, OneLeaves, ItemsOfSteps, NoneUntouched DEF QuickPart, Steps, ItemNames
  <2>4. CASE app.security.configured
    <3>1. quick = <<"disable">> /\ "disable" \in Steps
      BY <1>5, <2>4 DEF QuickPart, Steps
    <3>2. /\ Leaves(task, quick, "enabled", ValueOf(task, "disable", "enabled"))
          /\ Leaves(task, quick, "secret", ValueOf(task, "disable", "secret"))
      BY <3>1, OneLeaves, ItemsOfSteps DEF ItemNames
    <3>3. /\ ValueOf(task, "disable", "enabled") = promise.enabled
          /\ ValueOf(task, "disable", "secret") = promise.secret
      BY <2>1, <2>4, <2>6 DEF ValueOf, LeftSecret
    <3> HIDE DEF first, quick, promise
    <3>4. Left(task, first \o quick, "enabled", promise.enabled)
      BY <1>1, <3>2, <3>3, LeftJoined
    <3>5. Left(task, first \o quick, "keystore", promise.keystore)
      BY <1>1, <2>2, <2>3, LeftJoined DEF Left
    <3>6. Left(task, first \o quick, "secret", promise.secret)
      BY <1>1, <3>2, <3>3, LeftJoined
    <3> QED BY <1>3, <2>1, <3>4, <3>5, <3>6 DEF ItemNames, promise
  <2>5. CASE ~ app.security.configured
    <3>1. quick = <<>>
      BY <1>5, <2>5 DEF QuickPart
    <3>2. vault.enabled = FALSE
      BY <2>5, InformedVault DEF TypeOK, Vaults
    <3>3. Untouched(quick, "enabled") /\ Untouched(quick, "secret")
      BY <3>1, NoneUntouched
    <3>7. app.preferences.persist => promise.secret = vault.secret
      BY <2>5, <2>6, <3>2 DEF LeftSecret, Paired
    <3>8. ~ app.preferences.persist => promise.secret = Nothing
      BY <2>6
    <3> HIDE DEF first, quick, promise
    <3>4. Left(task, first, "enabled", promise.enabled)
      BY <2>1, <2>2, <3>2 DEF Left
    <3>5. Left(task, first \o quick, "enabled", promise.enabled)
      BY <1>1, <3>3, <3>4, LeftJoined
    <3>6. Left(task, first \o quick, "keystore", promise.keystore)
      BY <1>1, <2>2, <2>3, LeftJoined DEF Left
    <3>9. Left(task, first, "secret", promise.secret)
      BY <2>2, <3>7, <3>8 DEF Left
    <3>10. Left(task, first \o quick, "secret", promise.secret)
      BY <1>1, <3>3, <3>9, LeftJoined
    <3> QED BY <1>3, <2>1, <3>5, <3>6, <3>10 DEF ItemNames, promise
  <2> QED BY <2>4, <2>5
<1> QED BY <1>4, <1>5

-----------------------------------------------------------------------------
(* Taps. *)

\* What is known of every handler when it begins.
Sound(task) ==
  /\ task \in Tasks /\ task.steps # <<>> /\ Named(task) /\ ReadFirst(task.steps)
  /\ Promising /\ task.promise # Nothing =>
       /\ task.steps \in Seq(Knowing)
       /\ \A item \in ItemNames : Left(task, task.steps, item, task.promise[item])

LEMMA PairingWrites ==
  ASSUME NEW task \in Tasks, Pairing(task)
  PROVE  Writes(task)
<1>1. 1 \in DOMAIN task.steps /\ Head(task.steps) = task.steps[1]
  BY TailSteps DEF Tasks, Pairing
<1> QED BY <1>1 DEF Writes, Pairing

LEMMA KeystoreIsThere == \A ks \in Keystores : ks # Nothing
  BY MobileWalletAssumption

LEMMA PromisingVault ==
  ASSUME TypeOK, Whole, Promising
  PROVE  app.security.store /\ Informed /\ (torn \/ Paired(vault))
<1>1. \A s \in Slots : tasks[s] \in Tasks
  BY DEF TypeOK
<1>2. \A s \in Slots : Pending(tasks[s]) => Writes(tasks[s])
  BY <1>1, PairingWrites DEF Pending
<1> QED BY <1>2 DEF Promising, Whole

LEMMA CreateBegins ==
  ASSUME TypeOK, Whole, CreateWallet
  PROVE  \E task : Sound(task) /\ Begin(task) /\ made' \subseteq Keys
<1> DEFINE apply == applyDeviceSecurity(app)
           steps == apply \o <<"opened">>
<1>1. PICK key \in Keys \ made, pass \in Passes :
        LET ks == [key |-> key, pass |-> pass]
        IN  /\ Begin([NoTask EXCEPT !.steps = steps, !.keystore = ks, !.pass = pass,
                                    !.promise = Applied(ks, pass)])
            /\ made' = made \cup {key}
  BY DEF CreateWallet
<1> DEFINE ks == [key |-> key, pass |-> pass]
           task == [NoTask EXCEPT !.steps = steps, !.keystore = ks, !.pass = pass,
                                  !.promise = Applied(ks, pass)]
<1>2. apply \in Seq(Steps) /\ apply \in Seq(Knowing) /\ apply # <<>>
      /\ <<"opened">> \in Seq(Steps) /\ <<"opened">> \in Seq(Knowing)
  BY ApplyType, KnowingSteps DEF Steps, Knowing
<1>3. ks \in Keystores
  BY DEF Keystores
<1>4. Applied(ks, pass) \in Vaults
  BY <1>3, AppliedType
<1>5. Begin(task) /\ made' \subseteq Keys
  BY <1>1 DEF TypeOK
<1>6. \A item \in ItemNames : Untouched(<<"opened">>, item)
  BY OneLeaves, ItemsOfSteps DEF Steps
<1> HIDE DEF apply, ks
<1>7. steps \in Seq(Steps) /\ steps \in Seq(Knowing) /\ steps # <<>>
  BY <1>2, Joined, KnowingSteps
<1> HIDE DEF steps
<1>8. /\ task.keystore = ks /\ task.pass = pass /\ task.steps = steps
      /\ task.promise = Applied(ks, pass) /\ task \in Tasks
  BY <1>3, <1>4, <1>7 DEF NoTask, Tasks
<1> HIDE DEF task
<1>9. Named(task)
  BY <1>3, <1>8, KeystoreIsThere DEF Named
<1>10. ASSUME Promising
       PROVE  \A item \in ItemNames : Left(task, task.steps, item, task.promise[item])
  <2>1. \A item \in ItemNames : Left(task, apply, item, task.promise[item])
    BY <1>3, <1>8, <1>10, AppliedIsLeft, PromisingVault DEF apply
  <2> QED BY <1>2, <1>6, <1>8, <2>1, LeftJoined DEF steps
<1>11. ReadFirst(steps)
  BY <1>2, ApplyReadsFirst, ReadFirstParts, ReadFirstJoined DEF steps, apply, Steps, Readies
<1> QED BY <1>5, <1>7, <1>8, <1>9, <1>10, <1>11 DEF Sound

LEMMA UnlockBegins ==
  ASSUME TypeOK, Whole, UnlockWallet
  PROVE  \E task : Sound(task) /\ Begin(task) /\ made' \subseteq Keys
<1> DEFINE apply == applyDeviceSecurity(app)
           before == <<"decrypt">> \o apply
           steps == before \o <<"unlocked">>
           ks == app.keystore
<1>1. PICK pass \in Passes :
        Begin([NoTask EXCEPT !.steps = steps, !.keystore = ks, !.pass = pass,
                             !.promise = Applied(ks, pass)])
  BY DEF UnlockWallet
<1> DEFINE task == [NoTask EXCEPT !.steps = steps, !.keystore = ks, !.pass = pass,
                                  !.promise = Applied(ks, pass)]
<1>2. /\ apply \in Seq(Steps) /\ apply \in Seq(Knowing) /\ apply # <<>>
      /\ <<"unlocked">> \in Seq(Steps) /\ <<"unlocked">> \in Seq(Knowing)
      /\ <<"decrypt">> \in Seq(Steps) /\ <<"decrypt">> \in Seq(Knowing)
  BY ApplyType, KnowingSteps DEF Steps, Knowing
<1>3. ks \in Keystores
  BY DEF UnlockWallet, TypeOK, Apps
<1>4. Applied(ks, pass) \in Vaults
  BY <1>3, AppliedType
<1>5. Begin(task) /\ made' \subseteq Keys
  BY <1>1 DEF TypeOK, UnlockWallet
<1>6. \A item \in ItemNames : Untouched(<<"unlocked">>, item) /\ Untouched(<<"decrypt">>, item)
  BY OneLeaves, ItemsOfSteps DEF Steps
<1> HIDE DEF apply, ks
<1>7. before \in Seq(Steps) /\ before \in Seq(Knowing) /\ before # <<>>
  BY <1>2, Joined, KnowingSteps
<1> HIDE DEF before
<1>8. steps \in Seq(Steps) /\ steps \in Seq(Knowing) /\ steps # <<>>
  BY <1>2, <1>7, Joined, KnowingSteps
<1> HIDE DEF steps
<1>9. /\ task.keystore = ks /\ task.pass = pass /\ task.steps = steps
      /\ task.promise = Applied(ks, pass) /\ task \in Tasks
  BY <1>3, <1>4, <1>8 DEF NoTask, Tasks
<1> HIDE DEF task
<1>10. Named(task)
  BY <1>3, <1>9, KeystoreIsThere DEF Named
<1>11. ASSUME Promising
       PROVE  \A item \in ItemNames : Left(task, task.steps, item, task.promise[item])
  <2>1. \A item \in ItemNames : Left(task, apply, item, task.promise[item])
    BY <1>3, <1>9, <1>11, AppliedIsLeft, PromisingVault DEF apply
  <2>2. \A item \in ItemNames : Left(task, before, item, task.promise[item])
    BY <1>2, <1>6, <2>1, LeftJoined DEF before
  <2> QED BY <1>2, <1>6, <1>7, <1>9, <2>2, LeftJoined DEF steps
<1>12. ReadFirst(<<"decrypt">>) /\ ReadFirst(<<"unlocked">>)
  BY ReadFirstParts DEF Steps, Readies
<1>13. ReadFirst(before)
  BY <1>2, <1>12, ApplyReadsFirst, ReadFirstJoined DEF before, apply
<1>14. ReadFirst(steps)
  BY <1>2, <1>7, <1>12, <1>13, ReadFirstJoined DEF steps
<1> QED BY <1>5, <1>8, <1>9, <1>10, <1>11, <1>14 DEF Sound

LEMMA BiometricBegins ==
  ASSUME TypeOK, BiometricUnlock
  PROVE  \E task : Sound(task) /\ Begin(task) /\ made' \subseteq Keys
<1> DEFINE steps == <<"read", "restore", "load", "decrypt", "opened">>
           task == [NoTask EXCEPT !.steps = steps, !.keystore = app.keystore]
<1>1. app.keystore \in Keystores
  BY DEF BiometricUnlock, TypeOK, Apps
<1>2. steps \in Seq(Steps) /\ steps # <<>> /\ ReadFirst(steps)
  <2>1. /\ steps \in Seq(Steps) /\ steps # <<>> /\ DOMAIN steps = 1 .. 5
        /\ steps[1] = "read" /\ steps[2] = "restore" /\ steps[3] = "load"
        /\ steps[4] = "decrypt" /\ steps[5] = "opened"
    BY DEF Steps
  <2> QED BY <2>1 DEF ReadFirst, Readies
<1>3. Begin(task) /\ made' \subseteq Keys
  BY DEF BiometricUnlock, TypeOK
<1> HIDE DEF steps
<1>4. task \in Tasks /\ task.steps = steps /\ task.keystore = app.keystore /\ task.promise = Nothing
  BY <1>1, <1>2 DEF NoTask, Tasks
<1> HIDE DEF task
<1> QED BY <1>1, <1>2, <1>3, <1>4, KeystoreIsThere DEF Sound, Named

LEMMA ForgetBegins ==
  ASSUME TypeOK, ForgetDeviceWallet
  PROVE  \E task : Sound(task) /\ Begin(task) /\ made' \subseteq Keys
<1> DEFINE steps == <<"clear", "forgotten", "read", "show">>
           task == [NoTask EXCEPT !.steps = steps, !.promise = EmptyVault]
<1>1. /\ steps \in Seq(Steps) /\ steps # <<>> /\ steps \in Seq(Knowing)
      /\ DOMAIN steps = 1 .. 4
      /\ steps[1] = "clear" /\ steps[2] = "forgotten" /\ steps[3] = "read" /\ steps[4] = "show"
  BY DEF Steps, Knowing
<1>2. Begin(task) /\ made' \subseteq Keys
  BY DEF ForgetDeviceWallet, TypeOK
<1> HIDE DEF steps
<1>3. task \in Tasks /\ task.steps = steps /\ task.promise = EmptyVault
  BY <1>1, EmptyVaultType DEF NoTask, Tasks
<1> HIDE DEF task
<1>4. Named(task)
  BY <1>1, <1>3 DEF Named
<1>5. \A item \in ItemNames : Leaves(task, steps, item, ValueOf(task, "clear", item))
  BY <1>1, ItemsOfSteps DEF Leaves, ItemNames
<1>6. \A item \in ItemNames : ValueOf(task, "clear", item) = EmptyVault[item]
  <2>1. /\ ValueOf(task, "clear", "keystore") = EmptyVault.keystore
        /\ ValueOf(task, "clear", "secret") = EmptyVault.secret
        /\ ValueOf(task, "clear", "enabled") = EmptyVault.enabled
    BY DEF ValueOf, EmptyVault
  <2> QED BY <2>1 DEF ItemNames
<1>8. ReadFirst(steps)
  BY <1>1 DEF ReadFirst, Readies
<1> QED BY <1>1, <1>2, <1>3, <1>4, <1>5, <1>6, <1>8 DEF Sound, Left

LEMMA ImportBegins ==
  ASSUME TypeOK, Whole, ImportKeystore
  PROVE  \E task : Sound(task) /\ Begin(task) /\ made' \subseteq Keys
<1> DEFINE quick == app.security.configured /\ app.preferences.quick
           first == Remembering(app)
           second == IF app.security.configured /\ ~ app.preferences.quick THEN <<"disable">> ELSE <<>>
           last == <<"adopted", "read", "show">>
           steps == first \o second \o last
<1>1. PICK file \in Files :
        Begin([NoTask EXCEPT
                 !.steps = steps, !.keystore = file,
                 !.promise = IF app.preferences.persist
                             THEN [keystore |-> file, enabled |-> quick,
                                   secret |-> IF quick THEN vault.secret ELSE LeftSecret]
                             ELSE EmptyVault])
  BY DEF ImportKeystore
<1> DEFINE promise == IF app.preferences.persist
                      THEN [keystore |-> file, enabled |-> quick,
                            secret |-> IF quick THEN vault.secret ELSE LeftSecret]
                      ELSE EmptyVault
           task == [NoTask EXCEPT !.steps = steps, !.keystore = file, !.promise = promise]
<1>2. Begin(task) /\ made' \subseteq Keys
  BY <1>1 DEF ImportKeystore, TypeOK
<1>3. file \in Keystores /\ vault.secret \in Passes \cup {Nothing} /\ quick \in BOOLEAN
      /\ LeftSecret \in Passes \cup {Nothing}
  BY MobileWalletAssumption DEF TypeOK, Vaults, LeftSecret
<1>4. promise \in Vaults
  BY <1>3, EmptyVaultType DEF Vaults
<1>5. /\ last \in Seq(Steps) /\ last \in Seq(Knowing) /\ last # <<>> /\ DOMAIN last = 1 .. 3
      /\ last[1] = "adopted" /\ last[2] = "read" /\ last[3] = "show"
  BY DEF Steps, Knowing
<1>6. <<"disable">> \in Seq(Knowing) /\ <<>> \in Seq(Knowing)
  BY KnowingSteps DEF Steps, Knowing
<1>7. second \in Seq(Knowing) /\ second \in Seq(Steps) /\ first \in Seq(Knowing) /\ first \in Seq(Steps)
  BY <1>6, KnowingSteps, RememberingType
<1>8. \A item \in ItemNames : Untouched(last, item)
  BY <1>5, ItemsOfSteps DEF Untouched
<1>9. ASSUME Promising, NEW x, x.keystore = file
      PROVE  \A item \in ItemNames : Left(x, first \o second, item, promise[item])
  <2>1. /\ app.security.configured = vault.enabled /\ app.security.store
        /\ torn \/ Paired(vault)
    BY <1>9, InformedVault, PromisingVault
  <2>2. /\ "disable" \in Steps
        /\ Leaves(x, <<"disable">>, "enabled", ValueOf(x, "disable", "enabled"))
        /\ Leaves(x, <<"disable">>, "secret", ValueOf(x, "disable", "secret"))
        /\ Untouched(<<"disable">>, "keystore")
    BY OneLeaves, ItemsOfSteps DEF ItemNames, Steps
  <2>3. Leaves(x, <<"disable">>, "enabled", FALSE) /\ Leaves(x, <<"disable">>, "secret", Nothing)
    BY <2>2 DEF ValueOf
  <2>4. Untouched(second, "keystore")
    BY <2>2, NoneUntouched
  <2>5. second = <<"disable">> \/ second = <<>>
    OBVIOUS
  <2>6. CASE app.preferences.persist
    <3>1. /\ Leaves(x, first, "keystore", file)
          /\ Untouched(first, "secret") /\ Untouched(first, "enabled")
      BY <1>9, <2>1, <2>6, RememberingLeaves
    <3>2. promise.keystore = file /\ promise.enabled = quick /\ (quick => promise.secret = vault.secret)
      BY <2>6
    <3>3. quick => second = <<>>
      OBVIOUS
    <3>4. second = <<"disable">> => ~ quick
      BY NoSteps, OneStep DEF Steps
    <3>9. second = <<"disable">> => promise.secret = Nothing
      BY <2>6, NoSteps, OneStep DEF Steps, LeftSecret
    <3>10. second = <<>> => promise.secret = vault.secret
      BY <2>1, <2>6, OneStep DEF Steps, LeftSecret, Paired
    <3>5. second = <<>> => quick = vault.enabled
      BY <2>1, OneStep DEF Steps, TypeOK, Vaults
    <3> HIDE DEF first, second, promise, quick
    <3>6. Left(x, first \o second, "keystore", promise.keystore)
      BY <1>7, <2>4, <3>1, <3>2, LeftJoined DEF Left
    <3>7. Left(x, first \o second, "enabled", promise.enabled)
      <4>1. CASE second = <<"disable">>
        BY <1>3, <1>7, <2>3, <3>2, <3>4, <4>1, LeftJoined
      <4>2. CASE second = <<>>
        <5>1. Left(x, first, "enabled", promise.enabled) /\ Untouched(second, "enabled")
          BY <3>1, <3>2, <3>5, <4>2, NoneUntouched DEF Left
        <5> QED BY <1>7, <5>1, LeftJoined
      <4> QED BY <2>5, <4>1, <4>2
    <3>8. Left(x, first \o second, "secret", promise.secret)
      <4>1. CASE second = <<"disable">>
        BY <1>7, <2>3, <3>9, <4>1, LeftJoined
      <4>2. CASE second = <<>>
        <5>1. Left(x, first, "secret", promise.secret) /\ Untouched(second, "secret")
          BY <3>1, <3>10, <4>2, NoneUntouched DEF Left
        <5> QED BY <1>7, <5>1, LeftJoined
      <4> QED BY <2>5, <4>1, <4>2
    <3> QED BY <3>2, <3>6, <3>7, <3>8 DEF ItemNames
  <2>7. CASE ~ app.preferences.persist
    <3>1. /\ Leaves(x, first, "keystore", Nothing) /\ Leaves(x, first, "enabled", FALSE)
          /\ Leaves(x, first, "secret", Nothing)
      BY <2>1, <2>7, RememberingLeaves
    <3>2. promise.keystore = Nothing /\ promise.enabled = FALSE /\ promise.secret = Nothing
      BY <2>7 DEF EmptyVault
    <3> HIDE DEF first, second, promise
    <3>3. Left(x, first \o second, "keystore", promise.keystore)
      BY <1>7, <2>4, <3>1, <3>2, LeftJoined DEF Left
    <3>4. Left(x, first \o second, "enabled", promise.enabled)
      <4>1. CASE second = <<"disable">>
        BY <1>7, <2>3, <3>2, <4>1, LeftJoined
      <4>2. CASE second = <<>>
        <5>1. Left(x, first, "enabled", promise.enabled) /\ Untouched(second, "enabled")
          BY <3>1, <3>2, <4>2, NoneUntouched DEF Left
        <5> QED BY <1>7, <5>1, LeftJoined
      <4> QED BY <2>5, <4>1, <4>2
    <3>5. Left(x, first \o second, "secret", promise.secret)
      <4>1. CASE second = <<"disable">>
        BY <1>7, <2>3, <3>2, <4>1, LeftJoined
      <4>2. CASE second = <<>>
        <5>1. Left(x, first, "secret", promise.secret) /\ Untouched(second, "secret")
          BY <3>1, <3>2, <4>2, NoneUntouched DEF Left
        <5> QED BY <1>7, <5>1, LeftJoined
      <4> QED BY <2>5, <4>1, <4>2
    <3> QED BY <3>2, <3>3, <3>4, <3>5 DEF ItemNames
  <2> QED BY <2>6, <2>7
<1>15. ReadFirst(<<"disable">>) /\ ReadFirst(<<>>)
  BY ReadFirstParts DEF Steps, Readies
<1>16. ReadFirst(first) /\ ReadFirst(second) /\ ReadFirst(last)
  <2>1. ReadFirst(last)
    BY <1>5 DEF ReadFirst, Readies
  <2> QED BY <1>15, <2>1, ApplyReadsFirst
<1> HIDE DEF first, second, last, promise
<1>17. ReadFirst(steps)
  <2>1. ReadFirst(first \o second) /\ first \o second \in Seq(Steps)
    BY <1>7, <1>16, ReadFirstJoined, Joined
  <2> QED BY <1>5, <1>16, <2>1, ReadFirstJoined
<1>10. first \o second \in Seq(Steps) /\ first \o second \in Seq(Knowing)
  BY <1>7, Joined, KnowingSteps
<1>11. steps \in Seq(Steps) /\ steps \in Seq(Knowing) /\ steps # <<>>
  BY <1>5, <1>10, Joined, KnowingSteps
<1>12. \A x, item, value : item \in ItemNames /\ Left(x, first \o second, item, value) => Left(x, steps, item, value)
  BY <1>5, <1>8, <1>10, LeftJoined
<1> HIDE DEF steps
<1>13. task \in Tasks /\ task.steps = steps /\ task.keystore = file /\ task.promise = promise
  BY <1>3, <1>4, <1>11 DEF NoTask, Tasks
<1> HIDE DEF task
<1>14. Named(task)
  BY <1>3, <1>13, KeystoreIsThere DEF Named
<1> QED BY <1>2, <1>9, <1>11, <1>12, <1>13, <1>14, <1>17 DEF Sound

LEMMA TapBegins ==
  ASSUME TypeOK, Whole,
         CreateWallet \/ UnlockWallet \/ BiometricUnlock \/ ImportKeystore \/ ForgetDeviceWallet
  PROVE  \E task : Sound(task) /\ Begin(task) /\ made' \subseteq Keys
  BY CreateBegins, UnlockBegins, BiometricBegins, ImportBegins, ForgetBegins

\* The handlers after a tap: the new one, and the others, without a promise if
\* the new one writes.
LEMMA BegunTasks ==
  ASSUME TypeOK, NEW task, Sound(task), Begin(task)
  PROVE  \E s \in Slots :
           /\ tasks[s] = NoTask
           /\ \A x \in Slots \ {s} :
                /\ tasks'[x].steps = tasks[x].steps /\ tasks'[x].items = tasks[x].items
                /\ tasks'[x].keystore = tasks[x].keystore /\ tasks'[x].pass = tasks[x].pass
                /\ tasks'[x].seen = tasks[x].seen
                /\ tasks'[x].promise # Nothing =>
                     tasks'[x].promise = tasks[x].promise /\ ~ Writes(task)
           /\ tasks'[s].steps = task.steps /\ tasks'[s].items = Items(Head(task.steps))
           /\ tasks'[s].keystore = task.keystore /\ tasks'[s].pass = task.pass
           /\ tasks'[s].promise # Nothing => Promising /\ tasks'[s].promise = task.promise
<1>1. PICK s \in Slots :
       /\ tasks[s] = NoTask
       /\ tasks' = [x \in Slots |->
            IF x = s
            THEN [task EXCEPT !.items = Items(Head(task.steps)),
                              !.promise = IF Promising THEN @ ELSE Nothing]
            ELSE IF Writes(task) THEN [tasks[x] EXCEPT !.promise = Nothing] ELSE tasks[x]]
  BY DEF Begin
<1>2. \A x \in Slots : tasks[x] \in Tasks
  BY DEF TypeOK
<1>3. task \in Tasks
  BY DEF Sound
<1>4. ASSUME NEW x \in Slots \ {s}
      PROVE  /\ tasks'[x].steps = tasks[x].steps /\ tasks'[x].items = tasks[x].items
             /\ tasks'[x].keystore = tasks[x].keystore /\ tasks'[x].pass = tasks[x].pass
                /\ tasks'[x].seen = tasks[x].seen
             /\ tasks'[x].promise # Nothing =>
                  tasks'[x].promise = tasks[x].promise /\ ~ Writes(task)
  BY <1>1, <1>2 DEF Tasks
<1>5. /\ tasks'[s].steps = task.steps /\ tasks'[s].items = Items(Head(task.steps))
      /\ tasks'[s].keystore = task.keystore /\ tasks'[s].pass = task.pass
      /\ tasks'[s].promise # Nothing => Promising /\ tasks'[s].promise = task.promise
  BY <1>1, <1>3 DEF Tasks
<1> QED BY <1>1, <1>4, <1>5

LEMMA BeginSession ==
  ASSUME TypeOK, SessionInv, NEW task, Sound(task), Begin(task)
  PROVE  SessionInv'
<1>1. \A s \in Slots : Named(tasks'[s]) /\ Readied(tasks'[s])
  <2>1. PICK s \in Slots :
           /\ \A x \in Slots \ {s} :
                /\ tasks'[x].steps = tasks[x].steps /\ tasks'[x].keystore = tasks[x].keystore
                /\ tasks'[x].seen = tasks[x].seen
           /\ tasks'[s].steps = task.steps /\ tasks'[s].keystore = task.keystore
    BY BegunTasks
  <2>2. Named(tasks'[s]) /\ Readied(tasks'[s])
    BY <2>1 DEF Sound, Named, Readied, ReadFirst
  <2>3. ASSUME NEW x \in Slots \ {s} PROVE Named(tasks'[x]) /\ Readied(tasks'[x])
    <3>1. Named(tasks[x]) /\ Readied(tasks[x])
      BY DEF SessionInv, Ready
    <3> QED BY <2>1, <3>1 DEF Named, Readied
  <2> QED BY <2>2, <2>3
<1>2. UNCHANGED <<app, active, overtaken, late>>
  BY DEF Begin
<1> QED BY <1>1, <1>2 DEF SessionInv, Ready, SessionIsCurrent, Named, Readied

LEMMA BeginVault ==
  ASSUME TypeOK, VaultInv, NEW task, Sound(task), Begin(task)
  PROVE  VaultInv'
<1>1. PICK s \in Slots :
           /\ tasks[s] = NoTask
           /\ \A x \in Slots \ {s} :
                /\ tasks'[x].steps = tasks[x].steps /\ tasks'[x].items = tasks[x].items
                /\ tasks'[x].keystore = tasks[x].keystore /\ tasks'[x].pass = tasks[x].pass
                /\ tasks'[x].seen = tasks[x].seen
                /\ tasks'[x].promise # Nothing =>
                     tasks'[x].promise = tasks[x].promise /\ ~ Writes(task)
           /\ tasks'[s].steps = task.steps /\ tasks'[s].items = Items(Head(task.steps))
           /\ tasks'[s].keystore = task.keystore /\ tasks'[s].pass = task.pass
           /\ tasks'[s].promise # Nothing => Promising /\ tasks'[s].promise = task.promise
  BY BegunTasks
<1>2. /\ UNCHANGED vault
      /\ settled' = IF Writes(task) THEN Nothing ELSE settled
  BY DEF Begin
<1>3. /\ Writes(tasks'[s]) <=> Writes(task)
      /\ \A x \in Slots \ {s} : Writes(tasks'[x]) <=> Writes(tasks[x])
  BY <1>1 DEF Writes
<1>4. PromisesHold'
  <2> SUFFICES ASSUME NEW p \in Slots, tasks'[p].promise # Nothing
               PROVE  /\ tasks'[p].steps \in Seq(Knowing)
                      /\ \A x \in Slots \ {p} : ~ Writes(tasks'[x])
                      /\ Keeps(tasks'[p], tasks'[p].items, vault')
    BY DEF PromisesHold
  <2>1. CASE p = s
    <3>1. Promising /\ tasks'[s].promise = task.promise /\ task.promise # Nothing
      BY <1>1, <2>1
    <3>2. /\ task.steps \in Seq(Knowing) /\ task.steps \in Seq(Steps) /\ task.steps # <<>>
          /\ \A item \in ItemNames : Left(task, task.steps, item, task.promise[item])
      BY <3>1, KnowingSteps DEF Sound
    <3>3. \A x \in Slots \ {s} : ~ Writes(tasks'[x])
      BY <1>3, <3>1 DEF Promising
    <3>4. ASSUME NEW item \in ItemNames
          PROVE  Fulfils(task, task.steps, Items(Head(task.steps)), item, vault[item], task.promise[item])
      BY <3>2, SplitSteps DEF Left
    <3>5. \A steps, items, item, now, value :
            Fulfils(task, steps, items, item, now, value) => Fulfils(tasks'[s], steps, items, item, now, value)
      BY <1>1 DEF Fulfils, Leaves, ValueOf
    <3>6. Keeps(tasks'[s], tasks'[s].items, vault')
      BY <1>1, <1>2, <3>1, <3>4, <3>5 DEF Keeps
    <3> QED BY <1>1, <2>1, <3>2, <3>3, <3>6
  <2>2. CASE p # s
    <3>1. /\ tasks'[p].promise = tasks[p].promise /\ ~ Writes(task)
          /\ tasks'[p].steps = tasks[p].steps /\ tasks'[p].items = tasks[p].items
          /\ tasks'[p].keystore = tasks[p].keystore /\ tasks'[p].pass = tasks[p].pass
      BY <1>1, <2>2
    <3>2. /\ tasks[p].steps \in Seq(Knowing)
          /\ \A x \in Slots \ {p} : ~ Writes(tasks[x])
          /\ Keeps(tasks[p], tasks[p].items, vault)
      BY <3>1 DEF VaultInv, PromisesHold
    <3>3. \A x \in Slots \ {p} : ~ Writes(tasks'[x])
      BY <1>3, <3>1, <3>2
    <3>4. \A steps, items, item, now, value :
            Fulfils(tasks[p], steps, items, item, now, value) => Fulfils(tasks'[p], steps, items, item, now, value)
      BY <3>1 DEF Fulfils, Leaves, ValueOf
    <3>5. Keeps(tasks'[p], tasks'[p].items, vault')
      BY <1>2, <3>1, <3>2, <3>4 DEF Keeps
    <3> QED BY <3>1, <3>2, <3>3, <3>5
  <2> QED BY <2>1, <2>2
<1>5. SettledStays'
  BY <1>2, <1>3 DEF VaultInv, SettledStays
<1>6. VaultSettles'
  BY <1>2 DEF VaultInv, VaultSettles
<1> QED BY <1>4, <1>5, <1>6 DEF VaultInv

-----------------------------------------------------------------------------
(* The awaits of a handler. *)

LEMMA FollowingFields ==
  ASSUME NEW task \in Tasks, task.steps # <<>>
  PROVE  /\ Tail(task.steps) = <<>> => Following(task) = NoTask
         /\ Tail(task.steps) # <<>> =>
              /\ Following(task).steps = Tail(task.steps)
              /\ Following(task).items = Items(Head(Tail(task.steps)))
              /\ Following(task).keystore = task.keystore /\ Following(task).pass = task.pass
              /\ Following(task).promise = task.promise
  BY DEF Following, Tasks

LEMMA IdleTask ==
  /\ NoTask.promise = Nothing /\ ~ Writes(NoTask) /\ Named(NoTask) /\ Readied(NoTask)
  /\ Booting.promise = Nothing /\ ~ Writes(Booting) /\ Named(Booting) /\ Readied(Booting)
<1>1. NoTask.steps = <<>> /\ NoTask.promise = Nothing
  BY DEF NoTask
<1>2. Booting.steps = <<"read", "restore">> /\ Booting.promise = Nothing
  BY DEF Booting, NoTask
<1>3. DOMAIN <<"read", "restore">> = {1, 2} /\ <<"read", "restore">>[1] = "read"
      /\ <<"read", "restore">>[2] = "restore"
  BY TwoSteps DEF Steps
<1> QED BY <1>1, <1>2, <1>3, NoSteps, ItemsOfSteps DEF Writes, Named, Readied, Readies

\* Handlers that go on write no more than before, and stay named.
LEMMA FollowingWrites ==
  ASSUME NEW task \in Tasks, task.steps # <<>>
  PROVE  /\ Writes(Following(task)) => Writes(task)
         /\ Named(task) => Named(Following(task))
         /\ Readied(task) /\ (Head(task.steps) = "read" => task.seen # Nothing) => Readied(Following(task))
<1>1. CASE Tail(task.steps) = <<>>
  BY <1>1, FollowingFields, IdleTask
<1>2. CASE Tail(task.steps) # <<>>
  <2>1. Following(task).steps = Tail(task.steps) /\ Following(task).keystore = task.keystore
    BY <1>2, FollowingFields
  <2>2. \A i \in DOMAIN Tail(task.steps) : i + 1 \in DOMAIN task.steps /\ Tail(task.steps)[i] = task.steps[i + 1]
    BY TailSteps DEF Tasks
  <2>3. Readied(task) /\ (Head(task.steps) = "read" => task.seen # Nothing) => Readied(Following(task))
    <3> SUFFICES ASSUME Readied(task), Head(task.steps) = "read" => task.seen # Nothing,
                        NEW i \in DOMAIN Tail(task.steps), Readies(Tail(task.steps)[i])
                 PROVE  IF i = 1 THEN Following(task).seen # Nothing ELSE Tail(task.steps)[i - 1] = "read"
      BY <2>1 DEF Readied
    <3>1. DOMAIN Tail(task.steps) = 1 .. Len(Tail(task.steps)) /\ Len(Tail(task.steps)) \in Nat
          /\ Head(task.steps) = task.steps[1]
      BY TailSteps, LenProperties DEF Tasks
    <3>4. i \in Nat \ {0} /\ i + 1 # 1 /\ (i + 1) - 1 = i
      BY <3>1
    <3>5. i + 1 \in DOMAIN task.steps /\ Readies(task.steps[i + 1])
      BY <2>2
    <3>2. task.steps[i] = "read"
      BY <3>4, <3>5 DEF Readied
    <3>3. Following(task).seen = task.seen
      BY <1>2 DEF Following, Tasks
    <3> QED BY <2>2, <3>1, <3>2, <3>3, <3>4
  <2> QED BY <2>1, <2>2, <2>3 DEF Writes, Named
<1> QED BY <1>1, <1>2

\* A task that writes an item, or has one in a later step, is one that writes.
LEMMA WritingTask ==
  ASSUME NEW task \in Tasks, ItemsFit(task), task.items # {}
  PROVE  Writes(task)
<1>1. task.steps # <<>> /\ Items(Head(task.steps)) # {}
  BY DEF ItemsFit
<1>2. 1 \in DOMAIN task.steps /\ Head(task.steps) = task.steps[1]
  BY <1>1, TailSteps DEF Tasks
<1> QED BY <1>1, <1>2 DEF Writes

LEMMA FollowingKeeps ==
  ASSUME NEW task \in Tasks, task.steps # <<>>, NEW v, Keeps(task, {}, v)
  PROVE  /\ Tail(task.steps) = <<>> =>
              \A item \in ItemNames : v[item] = task.promise[item]
         /\ Tail(task.steps) # <<>> => Keeps(Following(task), Following(task).items, v)
<1> DEFINE rest == Tail(task.steps)
<1>1. \A item \in ItemNames :
        \/ Leaves(task, rest, item, task.promise[item])
        \/ Untouched(rest, item) /\ v[item] = task.promise[item]
  BY DEF Keeps, Fulfils
<1>2. rest = <<>> => \A item \in ItemNames : v[item] = task.promise[item]
  BY <1>1, NoSteps DEF Leaves
<1>3. ASSUME rest # <<>> PROVE Keeps(Following(task), Following(task).items, v)
  <2>1. /\ Following(task).steps = rest /\ Following(task).items = Items(Head(rest))
        /\ Following(task).keystore = task.keystore /\ Following(task).pass = task.pass
        /\ Following(task).promise = task.promise
    BY <1>3, FollowingFields
  <2>2. rest \in Seq(Steps)
    BY TailSteps DEF Tasks
  <2> HIDE DEF rest
  <2>3. \A item \in ItemNames :
          Fulfils(task, rest, Items(Head(rest)), item, v[item], task.promise[item])
    BY <1>1, <1>3, <2>2, SplitSteps
  <2>4. \A steps, items, item, now, value :
          Fulfils(task, steps, items, item, now, value) => Fulfils(Following(task), steps, items, item, now, value)
    BY <2>1 DEF Fulfils, Leaves, ValueOf
  <2> QED BY <2>1, <2>3, <2>4 DEF Keeps
<1> QED BY <1>2, <1>3

LEMMA AdvanceVault ==
  ASSUME TypeOK, VaultInv, NEW s \in Slots, NEW task \in Tasks,
         task.steps = tasks[s].steps, task.steps # <<>>, task.promise = tasks[s].promise,
         task.promise # Nothing => Keeps(task, {}, vault'), vault' \in Vaults,
         Advance(s, task),
         vault' = vault \/ (settled = Nothing /\ \A x \in Slots \ {s} : tasks[x].promise = Nothing)
  PROVE  VaultInv'
<1> DEFINE next == Following(task)
           rest == Tail(task.steps)
<1>1. /\ tasks' = [tasks EXCEPT ![s] = next]
      /\ settled' = IF Len(task.steps) = 1 /\ task.promise # Nothing THEN task.promise ELSE settled
  BY DEF Advance
<1>2. /\ tasks'[s] = next /\ \A x \in Slots \ {s} : tasks'[x] = tasks[x]
  BY <1>1 DEF TypeOK
<1>3. Len(task.steps) = 1 <=> rest = <<>>
  BY TailSteps DEF Tasks
<1>4. Writes(task) <=> Writes(tasks[s])
  BY DEF Writes
<1>5. Writes(next) => Writes(tasks[s])
  BY <1>4, FollowingWrites
<1>6. rest = <<>> => next = NoTask
  BY FollowingFields
<1>7. rest # <<>> => next.promise = task.promise /\ next.steps = rest
  BY FollowingFields
<1>8. tasks[s].promise # Nothing =>
        /\ tasks[s].steps \in Seq(Knowing) /\ \A x \in Slots \ {s} : ~ Writes(tasks[x])
  BY DEF VaultInv, PromisesHold
<1> HIDE DEF next
<1>9. PromisesHold'
  <2> SUFFICES ASSUME NEW p \in Slots, tasks'[p].promise # Nothing
               PROVE  /\ tasks'[p].steps \in Seq(Knowing)
                      /\ \A x \in Slots \ {p} : ~ Writes(tasks'[x])
                      /\ Keeps(tasks'[p], tasks'[p].items, vault')
    BY DEF PromisesHold
  <2>1. CASE p = s
    <3>1. rest # <<>>
      BY <1>2, <1>6, <2>1, IdleTask
    <3>2. task.promise # Nothing /\ next.promise = task.promise /\ next.steps = rest
      BY <1>2, <1>7, <2>1, <3>1
    <3>3. rest \in Seq(Knowing) /\ \A x \in Slots \ {s} : ~ Writes(tasks[x])
      BY <1>8, <3>2, KnowingSteps
    <3>4. Keeps(next, next.items, vault')
      BY <3>1, <3>2, FollowingKeeps DEF next
    <3> QED BY <1>2, <2>1, <3>2, <3>3, <3>4
  <2>2. CASE p # s
    <3>1. tasks'[p] = tasks[p] /\ tasks[p].promise # Nothing /\ vault' = vault
      BY <1>2, <2>2
    <3>2. /\ tasks[p].steps \in Seq(Knowing)
          /\ \A x \in Slots \ {p} : ~ Writes(tasks[x])
          /\ Keeps(tasks[p], tasks[p].items, vault)
      BY <3>1 DEF VaultInv, PromisesHold
    <3>3. \A x \in Slots \ {p} : ~ Writes(tasks'[x])
      BY <1>2, <1>5, <2>2, <3>2
    <3> QED BY <3>1, <3>2, <3>3
  <2> QED BY <2>1, <2>2
<1>10. CASE Len(task.steps) = 1 /\ task.promise # Nothing
  <2>1. settled' = task.promise /\ rest = <<>> /\ next = NoTask
    BY <1>1, <1>3, <1>6, <1>10
  <2>2. \A item \in ItemNames : vault'[item] = task.promise[item]
    BY <1>10, <2>1, FollowingKeeps
  <2>3. SettledStays'
    BY <1>2, <1>8, <1>10, <2>1, IdleTask DEF SettledStays
  <2>4. task.promise \in Vaults
    BY <1>10 DEF Tasks
  <2>5. VaultSettles'
    BY <2>1, <2>2, <2>4 DEF VaultSettles, Vaults, ItemNames
  <2> QED BY <1>9, <2>3, <2>5 DEF VaultInv
<1>11. CASE ~ (Len(task.steps) = 1 /\ task.promise # Nothing)
  <2>1. settled' = settled
    BY <1>1, <1>11
  <2>2. SettledStays'
    BY <1>2, <1>5, <2>1 DEF VaultInv, SettledStays
  <2>3. VaultSettles'
    BY <2>1 DEF VaultInv, VaultSettles
  <2> QED BY <1>9, <2>2, <2>3 DEF VaultInv
<1> QED BY <1>10, <1>11

LEMMA WriteKeeps ==
  ASSUME TypeOK, NEW s \in Slots, NEW item \in tasks[s].items,
         vault' = [vault EXCEPT ![item] = Written(tasks[s], item)],
         Keeps(tasks[s], tasks[s].items, vault)
  PROVE  Keeps(tasks[s], tasks[s].items \ {item}, vault')
<1> DEFINE task == tasks[s]
           left == task.items \ {item}
<1>1. item \in ItemNames
  BY WriteTypes
<1>2. /\ vault'[item] = ValueOf(task, Head(task.steps), item)
      /\ \A i \in ItemNames \ {item} : vault'[i] = vault[i]
  BY <1>1 DEF TypeOK, Vaults, Written, ValueOf, ItemNames
<1> SUFFICES ASSUME NEW i \in ItemNames
             PROVE  Fulfils(task, task.steps, left, i, vault'[i], task.promise[i])
  BY DEF Keeps
<1>4. Fulfils(task, task.steps, task.items, i, vault[i], task.promise[i])
  BY DEF Keeps
<1> QED BY <1>2, <1>4 DEF Fulfils

LEMMA WriteSteps ==
  ASSUME TypeOK, SessionInv, VaultInv, NEW s \in Slots, Write(s)
  PROVE  TypeOK' /\ SessionInv' /\ VaultInv'
<1> DEFINE task == tasks[s]
<1>1. PICK item \in task.items :
       /\ vault' = [vault EXCEPT ![item] = Written(task, item)]
       /\ LET left == task.items \ {item}
          IN  IF left = {} THEN Advance(s, task)
              ELSE tasks' = [tasks EXCEPT ![s].items = left] /\ UNCHANGED settled
  BY DEF Write
<1>2. UNCHANGED <<device, app, active, made, taps, ends, torn, overtaken, late>>
  BY DEF Write
<1>3. vault' \in Vaults
  BY <1>1, WriteTypes
<1>4. task \in Tasks /\ ItemsFit(task) /\ task.steps # <<>>
  BY <1>1, BusyTask
<1>5. Writes(task)
  BY <1>1, <1>4, WritingTask
<1>6. settled = Nothing /\ \A x \in Slots \ {s} : tasks[x].promise = Nothing
  BY <1>5 DEF VaultInv, SettledStays, PromisesHold
<1>7. task.promise # Nothing => Keeps(task, task.items \ {item}, vault')
  BY <1>1, WriteKeeps DEF VaultInv, PromisesHold
<1>8. Named(task) /\ Readied(task) /\ Head(task.steps) # "read"
  BY <1>1, <1>4 DEF SessionInv, Ready, ItemsFit, Items
<1>9. CASE task.items \ {item} = {}
  <2>1. Advance(s, task)
    BY <1>1, <1>9
  <2>2. TypeOK'
    BY <1>2, <1>3, <1>4, <2>1, AdvanceTypes DEF TypeOK, ItemsFit
  <2>3. VaultInv'
    BY <1>3, <1>4, <1>6, <1>7, <1>9, <2>1, AdvanceVault
  <2>4. \A x \in Slots : Named(tasks'[x]) /\ Readied(tasks'[x])
    BY <1>4, <1>8, <2>1, FollowingWrites DEF Advance, SessionInv, Ready, TypeOK
  <2> QED BY <1>2, <2>2, <2>3, <2>4 DEF SessionInv, Ready, SessionIsCurrent
<1>10. CASE task.items \ {item} # {}
  <2> DEFINE left == task.items \ {item}
  <2>1. tasks' = [tasks EXCEPT ![s].items = left] /\ UNCHANGED settled
    BY <1>1, <1>10
  <2>2. /\ \A x \in Slots \ {s} : tasks'[x] = tasks[x]
        /\ tasks'[s] = [task EXCEPT !.items = left]
    BY <2>1 DEF TypeOK
  <2>3. /\ tasks'[s] \in Tasks /\ tasks'[s].steps = task.steps /\ tasks'[s].items = left
        /\ tasks'[s].keystore = task.keystore /\ tasks'[s].pass = task.pass
        /\ tasks'[s].promise = task.promise /\ tasks'[s].seen = task.seen /\ ItemsFit(tasks'[s])
    BY <1>4, <2>2 DEF Tasks, ItemsFit
  <2>4. tasks' \in [Slots -> Tasks]
    BY <2>1, <2>2, <2>3 DEF TypeOK
  <2>5. TypeOK'
    BY <1>2, <1>3, <2>1, <2>2, <2>3, <2>4 DEF TypeOK, ItemsFit
  <2>6. /\ Writes(tasks'[s]) <=> Writes(task)
        /\ Named(task) => Named(tasks'[s])
        /\ Readied(task) => Readied(tasks'[s])
    BY <2>3 DEF Writes, Named, Readied
  <2>10. Ready'
    BY <1>8, <2>2, <2>6 DEF SessionInv, Ready
  <2>7. ASSUME task.promise # Nothing PROVE Keeps(tasks'[s], left, vault')
    <3>1. \A steps, items, i, now, value :
            Fulfils(task, steps, items, i, now, value) => Fulfils(tasks'[s], steps, items, i, now, value)
      BY <2>3 DEF Fulfils, Leaves, ValueOf
    <3> QED BY <1>7, <2>3, <2>7, <3>1 DEF Keeps
  <2>8. PromisesHold'
    <3> SUFFICES ASSUME NEW p \in Slots, tasks'[p].promise # Nothing
                 PROVE  /\ tasks'[p].steps \in Seq(Knowing)
                        /\ \A x \in Slots \ {p} : ~ Writes(tasks'[x])
                        /\ Keeps(tasks'[p], tasks'[p].items, vault')
      BY DEF PromisesHold
    <3>1. p = s /\ task.promise # Nothing
      BY <1>6, <2>2, <2>3
    <3>2. task.steps \in Seq(Knowing) /\ \A x \in Slots \ {s} : ~ Writes(tasks[x])
      BY <3>1 DEF VaultInv, PromisesHold
    <3> QED BY <2>2, <2>3, <2>7, <3>1, <3>2
  <2>9. SettledStays' /\ VaultSettles'
    BY <1>6, <2>1 DEF SettledStays, VaultSettles
  <2> QED BY <1>2, <2>5, <2>8, <2>9, <2>10 DEF SessionInv, SessionIsCurrent, VaultInv
<1> QED BY <1>9, <1>10

\* The other awaits: the vault stays, and no write is under way.
QuietSteps == {"read", "show", "restore", "decrypt", "load", "unlocked", "opened", "adopted", "forgotten"}

LEMMA QuietAdvance ==
  ASSUME TypeOK, VaultInv, Ready, NEW s \in Slots,
         NEW step \in QuietSteps, At(s, step), NEW task \in Tasks,
         task.steps = tasks[s].steps, task.promise = tasks[s].promise, task.keystore = tasks[s].keystore,
         step = "load" \/ task.pass = tasks[s].pass,
         IF step = "read" THEN task.seen # Nothing ELSE task.seen = tasks[s].seen,
         Advance(s, task), UNCHANGED vault
  PROVE  /\ tasks' \in [Slots -> Tasks] /\ \A x \in Slots : ItemsFit(tasks'[x])
         /\ settled' \in Vaults \cup {Nothing}
         /\ Ready' /\ VaultInv'
<1>1. tasks[s].steps # <<>> /\ Head(tasks[s].steps) = step /\ tasks[s] \in Tasks /\ ItemsFit(tasks[s])
  BY BusyTask DEF At
<1>2. Items(step) = {}
  BY ItemsOfSteps DEF QuietSteps
<1>3. tasks[s].items = {}
  BY <1>1, <1>2 DEF ItemsFit
<1>4. task.promise # Nothing => Keeps(task, {}, vault')
  <2> SUFFICES ASSUME task.promise # Nothing PROVE Keeps(task, {}, vault')
    OBVIOUS
  <2>1. tasks[s].steps \in Seq(Knowing) /\ Keeps(tasks[s], {}, vault)
    BY <1>3 DEF VaultInv, PromisesHold
  <2>2. step # "load"
    BY <1>1, <2>1, KnowingSteps DEF Knowing
  <2>3. \A steps, items, i, now, value :
          Fulfils(tasks[s], steps, items, i, now, value) => Fulfils(task, steps, items, i, now, value)
    BY <2>2 DEF Fulfils, Leaves, ValueOf
  <2> QED BY <2>1, <2>3 DEF Keeps
<1>5. VaultInv'
  <2>1. vault' \in Vaults
    BY DEF TypeOK
  <2> QED BY <1>1, <1>4, <2>1, AdvanceVault
<1>6. Named(task) /\ (Head(task.steps) = "read" => task.seen # Nothing)
  BY <1>1 DEF Ready, Named
<1>7. Readied(task)
  BY <1>1 DEF Ready, Readied, Readies, At
<1>8. Ready'
  BY <1>1, <1>6, <1>7, FollowingWrites DEF Advance, TypeOK, Ready
<1> QED BY <1>1, <1>5, <1>8, AdvanceTypes

LEMMA AppFields ==
  ASSUME NEW a \in Apps, NEW key \in Keys \cup {Nothing}, NEW ks \in Keystores \cup {Nothing}
  PROVE  /\ [a EXCEPT !.wallet = key] \in Apps
         /\ [a EXCEPT !.wallet = key].wallet = key /\ [a EXCEPT !.wallet = key].keystore = a.keystore
         /\ [a EXCEPT !.keystore = ks] \in Apps
         /\ [a EXCEPT !.keystore = ks].wallet = a.wallet /\ [a EXCEPT !.keystore = ks].keystore = ks
         /\ [a EXCEPT !.wallet = key, !.keystore = ks] \in Apps
         /\ [a EXCEPT !.wallet = key, !.keystore = ks].wallet = key
         /\ [a EXCEPT !.wallet = key, !.keystore = ks].keystore = ks
         /\ lockWalletSession(a) \in Apps
         /\ lockWalletSession(a).wallet = Nothing /\ lockWalletSession(a).keystore = a.keystore
  BY DEF Apps, lockWalletSession

LEMMA SeenType ==
  ASSUME TypeOK, NEW s \in Slots
  PROVE  [tasks[s] EXCEPT !.seen = getDeviceSecuritySnapshot] \in Tasks
  BY SnapshotType DEF TypeOK, Tasks


\* An await that leaves the vault ends, and the page is as it may be.
LEMMA QuietInv ==
  ASSUME Core, NEW s \in Slots,
         NEW step \in QuietSteps, At(s, step), NEW task \in Tasks,
         task.steps = tasks[s].steps, task.promise = tasks[s].promise, task.keystore = tasks[s].keystore,
         step = "load" \/ task.pass = tasks[s].pass,
         IF step = "read" THEN task.seen # Nothing ELSE task.seen = tasks[s].seen,
         Advance(s, task), UNCHANGED <<device, vault, active, made, taps, ends, torn>>,
         app' \in Apps, overtaken' \in BOOLEAN, late' \in BOOLEAN, SessionIsCurrent'
  PROVE  Core'
<1>1. TypeOK /\ VaultInv /\ Ready /\ vault' = vault
  BY DEF Core, SessionInv
<1>2. /\ tasks' \in [Slots -> Tasks] /\ \A x \in Slots : ItemsFit(tasks'[x])
      /\ settled' \in Vaults \cup {Nothing}
      /\ Ready' /\ VaultInv'
  BY <1>1, QuietAdvance
<1>3. TypeOK'
  BY <1>1, <1>2 DEF TypeOK, ItemsFit
<1> QED BY <1>2, <1>3 DEF Core, SessionInv

\* Who shows has something to show; who sets the wallet has its keystore.
LEMMA ReadyTask ==
  ASSUME Core, NEW s \in Slots
  PROVE  /\ tasks[s] \in Tasks /\ app \in Apps
         /\ At(s, "show") \/ At(s, "restore") => tasks[s].seen \in Snapshots
         /\ At(s, "unlocked") \/ At(s, "opened") \/ At(s, "adopted") =>
              tasks[s].keystore \in Keystores /\ tasks[s].keystore.key \in Keys
<1>1. tasks[s] \in Tasks /\ app \in Apps /\ Named(tasks[s]) /\ Readied(tasks[s])
  BY DEF Core, TypeOK, SessionInv, Ready
<1>2. \A step : At(s, step) => 1 \in DOMAIN tasks[s].steps /\ tasks[s].steps[1] = step
  BY <1>1, TailSteps DEF At, Tasks
<1>3. At(s, "show") \/ At(s, "restore") => tasks[s].seen \in Snapshots
  BY <1>1, <1>2 DEF Readied, Readies, Tasks
<1>4. At(s, "unlocked") \/ At(s, "opened") \/ At(s, "adopted") => tasks[s].keystore \in Keystores
  BY <1>1, <1>2 DEF Named, Tasks
<1> QED BY <1>1, <1>3, <1>4 DEF Keystores

LEMMA ReadInv == ASSUME Core, NEW s \in Slots, Read(s) PROVE Core'
<1> DEFINE task == [tasks[s] EXCEPT !.seen = getDeviceSecuritySnapshot]
<1>1. TypeOK /\ SessionIsCurrent
  BY DEF Core, SessionInv
<1>2. task \in Tasks /\ getDeviceSecuritySnapshot \in Snapshots
  BY <1>1, SeenType, SnapshotType
<1>3. tasks[s] \in Tasks
  BY ReadyTask
<1>4. /\ task.steps = tasks[s].steps /\ task.promise = tasks[s].promise
      /\ task.keystore = tasks[s].keystore /\ task.pass = tasks[s].pass
      /\ task.seen = getDeviceSecuritySnapshot
  BY <1>3 DEF Tasks
<1>5. Nothing \notin Snapshots
  BY MobileWalletAssumption
<1>6. app' \in Apps /\ overtaken' \in BOOLEAN /\ late' \in BOOLEAN /\ SessionIsCurrent'
  BY <1>1 DEF Read, TypeOK, SessionIsCurrent
<1>7. At(s, "read") /\ Advance(s, task) /\ UNCHANGED <<device, vault, active, made, taps, ends, torn>>
  BY DEF Read
<1> HIDE DEF task
<1> QED BY <1>2, <1>4, <1>5, <1>6, <1>7, QuietInv DEF QuietSteps

LEMMA ShowInv == ASSUME Core, NEW s \in Slots, Show(s) PROVE Core'
<1> DEFINE a == Synced(app, tasks[s].seen)
<1>1. /\ app \in Apps /\ tasks[s] \in Tasks /\ tasks[s].seen \in Snapshots
      /\ TypeOK /\ SessionIsCurrent
  BY ReadyTask DEF Show, Core, SessionInv
<1>2. a \in Apps /\ a.wallet = app.wallet /\ a.keystore = app.keystore
  BY <1>1, SyncedType
<1>3. app' = a
  BY DEF Show
<1> HIDE DEF a
<1>4. app' \in Apps /\ overtaken' \in BOOLEAN /\ late' \in BOOLEAN /\ SessionIsCurrent'
  BY <1>1, <1>2, <1>3 DEF Show, TypeOK, SessionIsCurrent
<1>5. At(s, "show") /\ Advance(s, tasks[s]) /\ UNCHANGED <<device, vault, active, made, taps, ends, torn>>
  BY DEF Show
<1> QED BY <1>1, <1>4, <1>5, QuietInv DEF QuietSteps

LEMMA RestoreInv == ASSUME Core, NEW s \in Slots, Restore(s) PROVE Core'
<1> DEFINE seen == tasks[s].seen
           a == Synced(app, seen)
<1>1. /\ app \in Apps /\ tasks[s] \in Tasks /\ seen \in Snapshots
      /\ TypeOK /\ SessionIsCurrent
  BY ReadyTask DEF Restore, Core, SessionInv
<1>2. a \in Apps /\ a.wallet = app.wallet /\ a.keystore = app.keystore
  BY <1>1, SyncedType
<1>3. /\ app' = IF seen.keystore = Nothing THEN a ELSE [a EXCEPT !.keystore = seen.keystore]
      /\ overtaken' = (overtaken \/ (app.wallet # Nothing /\ app'.keystore # app.keystore))
  BY DEF Restore
<1>4. seen.keystore \in Keystores \cup {Nothing}
  BY <1>1 DEF Snapshots
<1> HIDE DEF a, seen
<1>5. app' \in Apps /\ app'.wallet = app.wallet
  BY <1>2, <1>3, <1>4, AppFields
<1>6. overtaken' \in BOOLEAN /\ late' \in BOOLEAN /\ SessionIsCurrent'
  BY <1>1, <1>3, <1>5 DEF Restore, TypeOK, SessionIsCurrent
<1>7. At(s, "restore") /\ Advance(s, tasks[s]) /\ UNCHANGED <<device, vault, active, made, taps, ends, torn>>
  BY DEF Restore
<1> QED BY <1>1, <1>5, <1>6, <1>7, QuietInv DEF QuietSteps

LEMMA DecryptInv == ASSUME Core, NEW s \in Slots, Decrypt(s) PROVE Core'
<1>1. /\ app' \in Apps /\ overtaken' \in BOOLEAN /\ late' \in BOOLEAN /\ SessionIsCurrent'
      /\ tasks[s] \in Tasks
  BY ReadyTask DEF Decrypt, Core, SessionInv, TypeOK, SessionIsCurrent
<1>2. At(s, "decrypt") /\ Advance(s, tasks[s]) /\ UNCHANGED <<device, vault, active, made, taps, ends, torn>>
  BY DEF Decrypt
<1> QED BY <1>1, <1>2, QuietInv DEF QuietSteps

LEMMA LoadInv == ASSUME Core, NEW s \in Slots, loadBiometricPassphrase(s) PROVE Core'
<1> DEFINE task == [tasks[s] EXCEPT !.pass = vault.secret]
<1>1. /\ app' \in Apps /\ overtaken' \in BOOLEAN /\ late' \in BOOLEAN /\ SessionIsCurrent'
      /\ tasks[s] \in Tasks /\ vault \in Vaults
  BY ReadyTask DEF loadBiometricPassphrase, Core, SessionInv, TypeOK, SessionIsCurrent
<1>2. /\ task \in Tasks
      /\ task.steps = tasks[s].steps /\ task.promise = tasks[s].promise
      /\ task.keystore = tasks[s].keystore /\ task.seen = tasks[s].seen
  BY <1>1 DEF Tasks, Vaults
<1>3. At(s, "load") /\ Advance(s, task) /\ UNCHANGED <<device, vault, active, made, taps, ends, torn>>
  BY DEF loadBiometricPassphrase
<1> HIDE DEF task
<1> QED BY <1>1, <1>2, <1>3, QuietInv DEF QuietSteps

LEMMA UnlockedInv == ASSUME Core, NEW s \in Slots, Unlocked(s) PROVE Core'
<1> DEFINE ks == tasks[s].keystore
<1>1. /\ app \in Apps /\ tasks[s] \in Tasks /\ ks \in Keystores /\ ks.key \in Keys /\ active \in BOOLEAN
  BY ReadyTask DEF Unlocked, Core, TypeOK
<1>2. /\ app' = [app EXCEPT !.wallet = ks.key]
      /\ overtaken' = (app.keystore # ks) /\ late' = ~ active /\ active' = active
  BY DEF Unlocked
<1> HIDE DEF ks
<1>3. app' \in Apps /\ app'.wallet = ks.key /\ app'.keystore = app.keystore
  BY <1>1, <1>2, AppFields
<1>4. overtaken' \in BOOLEAN /\ late' \in BOOLEAN /\ SessionIsCurrent'
  BY <1>1, <1>2, <1>3, KeystoreIsThere DEF SessionIsCurrent
<1>5. At(s, "unlocked") /\ Advance(s, tasks[s]) /\ UNCHANGED <<device, vault, active, made, taps, ends, torn>>
  BY DEF Unlocked
<1> QED BY <1>1, <1>3, <1>4, <1>5, QuietInv DEF QuietSteps

LEMMA OpenedInv == ASSUME Core, NEW s \in Slots, Opened(s) PROVE Core'
<1> DEFINE ks == tasks[s].keystore
<1>1. /\ app \in Apps /\ tasks[s] \in Tasks /\ ks \in Keystores /\ ks.key \in Keys /\ active \in BOOLEAN
  BY ReadyTask DEF Opened, Core, TypeOK
<1>2. /\ app' = [app EXCEPT !.wallet = ks.key, !.keystore = ks]
      /\ overtaken' = FALSE /\ late' = ~ active /\ active' = active
  BY DEF Opened
<1> HIDE DEF ks
<1>3. app' \in Apps /\ app'.wallet = ks.key /\ app'.keystore = ks
  BY <1>1, <1>2 DEF Apps
<1>4. overtaken' \in BOOLEAN /\ late' \in BOOLEAN /\ SessionIsCurrent'
  BY <1>1, <1>2, <1>3, KeystoreIsThere DEF SessionIsCurrent
<1>5. At(s, "opened") /\ Advance(s, tasks[s]) /\ UNCHANGED <<device, vault, active, made, taps, ends, torn>>
  BY DEF Opened
<1> QED BY <1>1, <1>3, <1>4, <1>5, QuietInv DEF QuietSteps

LEMMA AdoptedInv == ASSUME Core, NEW s \in Slots, Adopted(s) PROVE Core'
<1> DEFINE ks == tasks[s].keystore
<1>1. app \in Apps /\ tasks[s] \in Tasks /\ ks \in Keystores /\ late \in BOOLEAN
  BY ReadyTask DEF Adopted, Core, TypeOK
<1>2. app' = [lockWalletSession(app) EXCEPT !.keystore = ks] /\ overtaken' = FALSE /\ late' = late
  BY DEF Adopted
<1> HIDE DEF ks
<1>6. lockWalletSession(app) \in Apps /\ lockWalletSession(app).wallet = Nothing
  BY <1>1, AppFields
<1>3. app' \in Apps /\ app'.wallet = Nothing
  BY <1>1, <1>2, <1>6 DEF Apps
<1>4. SessionIsCurrent'
  BY <1>3 DEF SessionIsCurrent
<1>5. At(s, "adopted") /\ Advance(s, tasks[s]) /\ UNCHANGED <<device, vault, active, made, taps, ends, torn>>
  BY DEF Adopted
<1> QED BY <1>1, <1>2, <1>3, <1>4, <1>5, QuietInv DEF QuietSteps

LEMMA ForgottenInv == ASSUME Core, NEW s \in Slots, Forgotten(s) PROVE Core'
<1>1. app \in Apps /\ tasks[s] \in Tasks /\ late \in BOOLEAN
  BY ReadyTask DEF Core, TypeOK
<1>2. /\ app' = [lockWalletSession(app) EXCEPT
               !.keystore = Nothing,
               !.preferences = [quick |-> FALSE, persist |-> FALSE]]
      /\ overtaken' = FALSE /\ late' = late
  BY DEF Forgotten
<1>3. lockWalletSession(app) \in Apps /\ lockWalletSession(app).wallet = Nothing
  BY <1>1, AppFields
<1>4. app' \in Apps /\ app'.wallet = Nothing
  BY <1>2, <1>3 DEF Apps, Preferences
<1>5. SessionIsCurrent'
  BY <1>4 DEF SessionIsCurrent
<1>6. At(s, "forgotten") /\ Advance(s, tasks[s]) /\ UNCHANGED <<device, vault, active, made, taps, ends, torn>>
  BY DEF Forgotten
<1> QED BY <1>1, <1>2, <1>4, <1>5, <1>6, QuietInv DEF QuietSteps

-----------------------------------------------------------------------------
(* The steps in which no handler goes on. *)

\* Steps of the user and of the system that leave handlers and vault alone.
LEMMA AppInv ==
  ASSUME Core, UNCHANGED <<device, vault, tasks, made, ends, settled, torn>>,
         app' \in Apps, active' \in BOOLEAN, overtaken' \in BOOLEAN, late' \in BOOLEAN,
         taps' \in 0 .. MaxTaps, SessionIsCurrent'
  PROVE  Core'
<1>1. TypeOK'
  BY DEF Core, TypeOK
<1>2. Ready'
  BY DEF Core, SessionInv, Ready
<1>3. VaultInv'
  BY DEF Core, VaultInv, PromisesHold, SettledStays, VaultSettles
<1> QED BY <1>1, <1>2, <1>3 DEF Core, SessionInv

LEMMA UserInv ==
  ASSUME Core, LockWallet \/ TogglePreference \/ Background \/ Foreground
  PROVE  Core'
<1>1. TypeOK /\ SessionIsCurrent /\ app \in Apps /\ active \in BOOLEAN /\ overtaken \in BOOLEAN /\ late \in BOOLEAN
      /\ taps \in 0 .. MaxTaps
  BY DEF Core, SessionInv, TypeOK
<1>2. CASE LockWallet
  <2>1. app' \in Apps /\ app'.wallet = Nothing
    BY <1>1, <1>2, AppFields DEF LockWallet
  <2>2. SessionIsCurrent'
    BY <2>1 DEF SessionIsCurrent
  <2> QED BY <1>1, <1>2, <2>1, <2>2, TapTypes, AppInv DEF LockWallet, Tap
<1>3. CASE TogglePreference
  <2>1. PICK field \in {"quick", "persist"}, value \in BOOLEAN :
          app' = [app EXCEPT !.preferences = updateDevicePreference(@, field, value)]
    BY <1>3 DEF TogglePreference
  <2>2. updateDevicePreference(app.preferences, field, value) \in Preferences
    BY <1>1 DEF updateDevicePreference, Preferences, Apps
  <2>3. app' \in Apps /\ app'.wallet = app.wallet /\ app'.keystore = app.keystore
    BY <1>1, <2>1, <2>2 DEF Apps
  <2>4. SessionIsCurrent'
    BY <1>1, <1>3, <2>3 DEF SessionIsCurrent, TogglePreference, Tap
  <2> QED BY <1>1, <1>3, <2>3, <2>4, TapTypes, AppInv DEF TogglePreference, Tap
<1>4. CASE Background
  <2>1. app' \in Apps /\ app'.wallet = Nothing
    BY <1>1, <1>4, AppFields DEF Background
  <2>2. SessionIsCurrent'
    BY <2>1 DEF SessionIsCurrent
  <2> QED BY <1>1, <1>4, <2>1, <2>2, AppInv DEF Background
<1>5. CASE Foreground
  <2>1. SessionIsCurrent'
    BY <1>1, <1>5 DEF SessionIsCurrent, Foreground
  <2> QED BY <1>1, <1>5, <2>1, AppInv DEF Foreground
<1> QED BY <1>2, <1>3, <1>4, <1>5

\* After a start only the reading of the device is under way.
LEMMA BootedInv ==
  ASSUME NEW t \in Booted
  PROVE  \A s \in Slots : t[s].promise = Nothing /\ ~ Writes(t[s]) /\ Named(t[s]) /\ Readied(t[s])
  BY IdleTask DEF Booted

LEMMA NewAppType == NewApp \in Apps /\ NewApp.wallet = Nothing
  BY DEF NewApp, DEFAULT_DEVICE_SECURITY, Apps, Securities, Preferences

LEMMA EndInv == ASSUME Core, EndApp PROVE Core'
<1>1. /\ tasks' \in Booted /\ app' = NewApp /\ active' = TRUE /\ overtaken' = FALSE /\ late' = FALSE
      /\ ends < MaxEnds /\ ends' = ends + 1 /\ UNCHANGED <<device, vault, made, taps, settled>>
  BY DEF EndApp
<1>2. tasks' \in [Slots -> Tasks] /\ \A s \in Slots : ItemsFit(tasks'[s])
  BY <1>1, BootedTypes
<1>3. TypeOK /\ VaultSettles
  BY DEF Core, VaultInv
<1>4. ends' \in 0 .. MaxEnds
  BY <1>1, <1>3, MobileWalletAssumption DEF TypeOK
<1>9. torn' \in BOOLEAN
  BY <1>3 DEF EndApp, TypeOK
<1>5. TypeOK'
  BY <1>1, <1>2, <1>3, <1>4, <1>9, NewAppType DEF TypeOK, ItemsFit
<1>6. SessionInv'
  BY <1>1, BootedInv, NewAppType DEF SessionInv, Ready, SessionIsCurrent
<1>7. PromisesHold' /\ SettledStays'
  BY <1>1, BootedInv DEF PromisesHold, SettledStays
<1>8. VaultSettles'
  BY <1>1, <1>3 DEF VaultSettles
<1> QED BY <1>5, <1>6, <1>7, <1>8 DEF Core, VaultInv

\* A handler that fails leaves no promise, and writes at most what it did.
LEMMA FailInv == ASSUME Core, NEW s \in Slots, Fail(s) PROVE Core'
<1>1. PICK rest \in SUBSET tasks[s].items :
        tasks' = [tasks EXCEPT ![s] =
            IF rest = {} THEN NoTask
            ELSE [tasks[s] EXCEPT !.steps = <<Head(@)>>, !.items = rest, !.promise = Nothing]]
  BY DEF Fail
<1>2. UNCHANGED <<device, vault, app, active, made, taps, ends, settled, overtaken, late>>
  BY DEF Fail
<1>3. /\ TypeOK /\ SessionIsCurrent /\ Ready /\ PromisesHold /\ SettledStays /\ VaultSettles
      /\ tasks[s] \in Tasks /\ ItemsFit(tasks[s]) /\ tasks[s].steps # <<>>
  BY BusyTask DEF Fail, Core, SessionInv, VaultInv
<1>4. \A x \in Slots \ {s} : tasks'[x] = tasks[x]
  BY <1>1, <1>3 DEF TypeOK
<1>5. /\ tasks'[s] \in Tasks /\ ItemsFit(tasks'[s]) /\ tasks'[s].promise = Nothing
      /\ Writes(tasks'[s]) => Writes(tasks[s])
      /\ Named(tasks'[s]) /\ Readied(tasks'[s])
  <2>1. CASE rest = {}
    <3>1. tasks'[s] = NoTask
      BY <1>1, <1>3, <2>1 DEF TypeOK
    <3> QED BY <3>1, NoTaskType, IdleTask
  <2>2. CASE rest # {}
    <3> DEFINE step == Head(tasks[s].steps)
    <3>1. tasks'[s] = [tasks[s] EXCEPT !.steps = <<step>>, !.items = rest, !.promise = Nothing]
      BY <1>1, <1>3, <2>2 DEF TypeOK
    <3>2. /\ step \in Steps /\ 1 \in DOMAIN tasks[s].steps /\ step = tasks[s].steps[1]
      BY <1>3, TailSteps DEF Tasks
    <3>3. rest \subseteq Items(step)
      BY <1>3 DEF ItemsFit
    <3>4. step \notin {"unlocked", "opened", "adopted", "show", "restore"}
      BY <2>2, <3>3, ItemsOfSteps
    <3> HIDE DEF step
    <3>5. /\ <<step>> \in Seq(Steps) /\ DOMAIN <<step>> = {1} /\ <<step>>[1] = step
          /\ <<step>> # <<>> /\ Head(<<step>>) = step
      BY <3>2, OneStep
    <3>6. /\ tasks'[s].steps = <<step>> /\ tasks'[s].items = rest /\ tasks'[s].promise = Nothing
          /\ tasks'[s] \in Tasks
      BY <1>3, <3>1, <3>5 DEF Tasks
    <3>7. ItemsFit(tasks'[s])
      BY <3>3, <3>5, <3>6 DEF ItemsFit
    <3>8. Writes(tasks'[s]) => Writes(tasks[s])
      BY <3>2, <3>5, <3>6 DEF Writes
    <3>9. Named(tasks'[s]) /\ Readied(tasks'[s])
      BY <3>4, <3>5, <3>6 DEF Named, Readied, Readies
    <3> QED BY <3>6, <3>7, <3>8, <3>9
  <2> QED BY <2>1, <2>2
<1>6. tasks' \in [Slots -> Tasks]
  BY <1>1, <1>3, <1>4, <1>5 DEF TypeOK
<1>11. torn' \in BOOLEAN
  BY <1>3 DEF Fail, TypeOK
<1>7. TypeOK'
  BY <1>2, <1>3, <1>4, <1>5, <1>6, <1>11 DEF TypeOK, ItemsFit
<1>8. SessionInv'
  BY <1>2, <1>3, <1>4, <1>5 DEF SessionInv, Ready, SessionIsCurrent
<1>9. PromisesHold'
  <2> SUFFICES ASSUME NEW p \in Slots, tasks'[p].promise # Nothing
               PROVE  /\ tasks'[p].steps \in Seq(Knowing)
                      /\ \A x \in Slots \ {p} : ~ Writes(tasks'[x])
                      /\ Keeps(tasks'[p], tasks'[p].items, vault')
    BY DEF PromisesHold
  <2>1. p # s /\ tasks'[p] = tasks[p]
    BY <1>4, <1>5
  <2>2. /\ tasks[p].steps \in Seq(Knowing)
        /\ \A x \in Slots \ {p} : ~ Writes(tasks[x])
        /\ Keeps(tasks[p], tasks[p].items, vault)
    BY <1>3, <2>1 DEF PromisesHold
  <2> QED BY <1>2, <1>4, <1>5, <2>1, <2>2
<1>10. SettledStays' /\ VaultSettles'
  BY <1>2, <1>3, <1>4, <1>5 DEF SettledStays, VaultSettles
<1> QED BY <1>7, <1>8, <1>9, <1>10 DEF Core, VaultInv

-----------------------------------------------------------------------------
(* The theorems. *)

LEMMA InitCore == Init => Core
<1> SUFFICES ASSUME Init PROVE Core
  OBVIOUS
<1>1. tasks \in Booted /\ app = NewApp /\ settled = Nothing
  BY DEF Init
<1>2. SessionInv
  BY <1>1, BootedInv, NewAppType DEF SessionInv, Ready, SessionIsCurrent
<1>3. VaultInv
  BY <1>1, BootedInv DEF VaultInv, PromisesHold, SettledStays, VaultSettles
<1> QED BY <1>2, <1>3, InitTypes DEF Core

LEMMA NextCore == Inv /\ [Next]_vars => Core'
<1> SUFFICES ASSUME Inv, [Next]_vars PROVE Core'
  OBVIOUS
<1>1. TypeOK /\ SessionInv /\ VaultInv /\ Core /\ Whole
  BY DEF Inv, Core
<1>2. CASE CreateWallet \/ UnlockWallet \/ BiometricUnlock \/ ImportKeystore \/ ForgetDeviceWallet
  <2>1. PICK task : Sound(task) /\ Begin(task) /\ made' \subseteq Keys
    BY <1>1, <1>2, TapBegins
  <2>2. task \in Tasks /\ task.steps # <<>>
    BY <2>1 DEF Sound
  <2> QED BY <1>1, <2>1, <2>2, BeginTypes, BeginSession, BeginVault DEF Core
<1>3. CASE LockWallet \/ TogglePreference \/ Background \/ Foreground
  BY <1>1, <1>3, UserInv
<1>4. CASE EndApp
  BY <1>1, <1>4, EndInv
<1>5. ASSUME NEW s \in Slots,
        \/ Write(s) \/ Read(s) \/ Show(s) \/ Restore(s) \/ Decrypt(s) \/ loadBiometricPassphrase(s)
        \/ Unlocked(s) \/ Opened(s) \/ Adopted(s) \/ Forgotten(s) \/ Fail(s)
      PROVE Core'
  <2>1. CASE Write(s)
    BY <1>1, <2>1, WriteSteps DEF Core
  <2>2. CASE ~ Write(s)
    BY <1>1, <1>5, <2>2, ReadInv, ShowInv, RestoreInv, DecryptInv, LoadInv, UnlockedInv, OpenedInv, AdoptedInv,
       ForgottenInv, FailInv
  <2> QED BY <2>1, <2>2
<1>6. CASE UNCHANGED vars
  <2>1. SessionIsCurrent'
    BY <1>1, <1>6 DEF vars, SessionInv, SessionIsCurrent
  <2> QED BY <1>1, <1>6, <2>1, AppInv DEF vars, TypeOK
<1> QED BY <1>2, <1>3, <1>4, <1>5, <1>6 DEF Next

-----------------------------------------------------------------------------
(* A secret without its flag: only a torn write leaves one. *)

\* A step begins with all of its items to write.
LEMMA FreshStep ==
  ASSUME NEW task, NEW v, task.steps # <<>> => task.items = Items(Head(task.steps)),
         task.steps # <<>> => Head(task.steps) \in Steps
  PROVE  Half(task, v)
<1>1. \A step \in Steps : "secret" \in Items(step) => step = "enable" \/ step = "disable" \/ step = "clear"
  BY ItemsOfSteps DEF Steps, ItemNames
<1>2. "enabled" \in Items("enable")
  BY ItemsOfSteps
<1> QED BY <1>1, <1>2 DEF Half, Pending, Pairing

LEMMA FollowingFresh ==
  ASSUME NEW task \in Tasks, task.steps # <<>>, NEW v
  PROVE  Half(Following(task), v) /\ (Writes(Following(task)) => Writes(task))
<1>1. CASE Tail(task.steps) = <<>>
  <2>1. Following(task).steps = <<>>
    BY <1>1, FollowingFields DEF NoTask
  <2> QED BY <2>1, FollowingWrites DEF Half, Pairing
<1>2. CASE Tail(task.steps) # <<>>
  <2>1. Tail(task.steps) \in Seq(Steps) /\ Head(Tail(task.steps)) \in Steps
    BY <1>2, TailSteps DEF Tasks
  <2>2. /\ Following(task).steps = Tail(task.steps)
        /\ Following(task).items = Items(Head(Tail(task.steps)))
    BY <1>2, FollowingFields
  <2>3. Following(task).items = Items(Head(Following(task).steps)) /\ Head(Following(task).steps) \in Steps
    BY <2>1, <2>2
  <2> QED BY <2>3, FreshStep, FollowingWrites
<1> QED BY <1>1, <1>2

LEMMA WholeBegin ==
  ASSUME TypeOK, Whole, NEW task, Sound(task), Begin(task)
  PROVE  Whole'
<1> SUFFICES ASSUME ~ torn' PROVE Whole'
  BY DEF Whole
<1>1. PICK s \in Slots :
           /\ tasks[s] = NoTask
           /\ \A x \in Slots \ {s} :
                /\ tasks'[x].steps = tasks[x].steps /\ tasks'[x].items = tasks[x].items
           /\ tasks'[s].steps = task.steps /\ tasks'[s].items = Items(Head(task.steps))
  BY BegunTasks
<1>2. vault' = vault /\ ~ torn /\ (Writes(task) => \A x \in Slots : ~ Writes(tasks[x]))
  BY DEF Begin
<1>3. LoneWriter /\ (\A x \in Slots : Half(tasks[x], vault)) /\ (Paired(vault) \/ \E x \in Slots : Pending(tasks[x]))
  BY <1>2 DEF Whole
<1>4. /\ Writes(tasks'[s]) <=> Writes(task)
      /\ \A x \in Slots \ {s} : Writes(tasks'[x]) <=> Writes(tasks[x])
  BY <1>1 DEF Writes
<1>5. LoneWriter'
  BY <1>2, <1>3, <1>4 DEF LoneWriter
<1>6. Half(tasks'[s], vault')
  <2>1. Head(tasks'[s].steps) \in Steps
    BY <1>1, TailSteps DEF Sound, Tasks
  <2> QED BY <1>1, <2>1, FreshStep
<1>7. \A x \in Slots \ {s} : Half(tasks'[x], vault')
  BY <1>1, <1>2, <1>3 DEF Half, Pending, Pairing
<1>8. Paired(vault') \/ \E x \in Slots : Pending(tasks'[x])
  <2>1. ~ Pending(tasks[s])
    BY <1>1 DEF NoTask, Pending, Pairing
  <2>2. \A x \in Slots \ {s} : Pending(tasks[x]) => Pending(tasks'[x])
    BY <1>1 DEF Pending, Pairing
  <2> QED BY <1>2, <1>3, <2>1, <2>2
<1> QED BY <1>5, <1>6, <1>7, <1>8 DEF Whole

\* What one write does to the pair, with the items that are left then.
LEMMA WriteHalf ==
  ASSUME TypeOK, NEW s \in Slots, NEW item \in tasks[s].items, Half(tasks[s], vault),
         vault' = [vault EXCEPT ![item] = Written(tasks[s], item)]
  PROVE  LET left == tasks[s].items \ {item}
             last == IF Head(tasks[s].steps) = "enable" THEN "enabled" ELSE "secret"
         IN  /\ ~ Pairing(tasks[s]) => (Paired(vault) => Paired(vault'))
             /\ Pairing(tasks[s]) /\ last \notin left =>
                  /\ IF Head(tasks[s].steps) = "enable" THEN vault'.enabled ELSE vault'.secret = Nothing
                  /\ Paired(vault')
<1> DEFINE task == tasks[s]
           step == Head(task.steps)
           left == task.items \ {item}
<1>1. /\ item \in ItemNames /\ task \in Tasks /\ ItemsFit(task) /\ task.steps # <<>>
      /\ item \in Items(step) /\ step \in Steps
  BY WriteTypes, BusyTask, TailSteps DEF ItemsFit, Tasks
<1>2. vault'.enabled = (IF item = "enabled" THEN Written(task, item) ELSE vault.enabled)
  BY <1>1 DEF TypeOK, Vaults, ItemNames
<1>7. vault'.secret = (IF item = "secret" THEN Written(task, item) ELSE vault.secret)
  BY <1>1 DEF TypeOK, Vaults, ItemNames
<1>3. /\ item = "enabled" => Written(task, item) = (step = "enable")
      /\ item = "secret" /\ step # "enable" => Written(task, item) = Nothing
  <2>1. item = "enabled" => Written(task, item) = (step = "enable")
    BY DEF Written
  <2> QED BY <2>1 DEF Written
<1>4. ~ Pairing(task) => item = "keystore"
  <2>1. ~ Pairing(task) => "secret" \notin Items(step)
    BY <1>1 DEF Pairing
  <2>2. "secret" \notin Items(step) => step = "persist"
    BY <1>1, ItemsOfSteps DEF Steps, ItemNames
  <2> QED BY <1>1, <2>1, <2>2, ItemsOfSteps
<1>5. ~ Pairing(task) => (Paired(vault) => Paired(vault'))
  BY <1>2, <1>4, <1>7 DEF Paired
<1>6. ASSUME Pairing(task), step = "enable", "enabled" \notin left
      PROVE  vault'.enabled
  <2>1. "enabled" \in task.items => item = "enabled"
    BY <1>6
  <2>2. "enabled" \notin task.items => vault.enabled /\ item # "enabled"
    BY <1>6 DEF Half, Pending
  <2> QED BY <1>2, <1>3, <1>6, <2>1, <2>2
<1>8. ASSUME Pairing(task), step # "enable", "secret" \notin left
      PROVE  vault'.secret = Nothing
  <2>1. "secret" \in task.items => item = "secret"
    BY <1>8
  <2>2. "secret" \notin task.items => vault.secret = Nothing /\ item # "secret"
    BY <1>8 DEF Half, Pending
  <2> QED BY <1>3, <1>7, <1>8, <2>1, <2>2
<1> QED BY <1>5, <1>6, <1>8 DEF Paired

LEMMA WholeWrite ==
  ASSUME TypeOK, Whole, NEW s \in Slots, Write(s)
  PROVE  Whole'
<1> DEFINE task == tasks[s]
           last == IF Head(task.steps) = "enable" THEN "enabled" ELSE "secret"
<1> SUFFICES ASSUME ~ torn' PROVE Whole'
  BY DEF Whole
<1>1. PICK item \in task.items :
       /\ vault' = [vault EXCEPT ![item] = Written(task, item)]
       /\ LET left == task.items \ {item}
          IN  IF left = {} THEN Advance(s, task)
              ELSE tasks' = [tasks EXCEPT ![s].items = left] /\ UNCHANGED settled
  BY DEF Write
<1> DEFINE left == task.items \ {item}
<1>2. ~ torn
  BY DEF Write
<1>3. LoneWriter /\ (\A x \in Slots : Half(tasks[x], vault)) /\ (Paired(vault) \/ \E x \in Slots : Pending(tasks[x]))
  BY <1>2 DEF Whole
<1>4. task \in Tasks /\ ItemsFit(task) /\ task.steps # <<>>
  BY <1>1, BusyTask
<1>5. Writes(task)
  BY <1>1, <1>4, WritingTask
<1>6. \A x \in Slots \ {s} : ~ Writes(tasks[x]) /\ ~ Pairing(tasks[x])
  BY <1>3, <1>5, PairingWrites DEF LoneWriter, TypeOK
<1>7. /\ ~ Pairing(task) => (Paired(vault) => Paired(vault'))
      /\ Pairing(task) /\ last \notin left =>
           /\ IF Head(task.steps) = "enable" THEN vault'.enabled ELSE vault'.secret = Nothing
           /\ Paired(vault')
  BY <1>1, <1>3, WriteHalf
<1>8. ~ Pairing(task) => Paired(vault')
  BY <1>3, <1>6, <1>7 DEF Pending
<1>9. CASE left = {}
  <2>1. tasks' = [tasks EXCEPT ![s] = Following(task)]
    BY <1>1, <1>9 DEF Advance
  <2>2. tasks'[s] = Following(task) /\ \A x \in Slots \ {s} : tasks'[x] = tasks[x]
    BY <2>1 DEF TypeOK
  <2>3. Paired(vault')
    BY <1>7, <1>8, <1>9
  <2>4. Half(tasks'[s], vault') /\ \A x \in Slots \ {s} : Half(tasks'[x], vault')
    BY <1>4, <1>6, <2>2, FollowingFresh DEF Half
  <2>5. LoneWriter'
    BY <1>6, <2>2 DEF LoneWriter
  <2> QED BY <2>3, <2>4, <2>5 DEF Whole
<1>10. CASE left # {}
  <2>1. tasks' = [tasks EXCEPT ![s].items = left]
    BY <1>1, <1>10
  <2>2. /\ \A x \in Slots \ {s} : tasks'[x] = tasks[x]
        /\ tasks'[s] = [task EXCEPT !.items = left]
    BY <2>1 DEF TypeOK
  <2>3. tasks'[s].steps = task.steps /\ tasks'[s].items = left
    BY <1>4, <2>2 DEF Tasks
  <2> HIDE DEF left
  <2>4. (Pairing(tasks'[s]) <=> Pairing(task)) /\ (Pending(tasks'[s]) <=> Pairing(task) /\ last \in left)
    BY <2>3 DEF Pairing, Pending
  <2>5. Half(tasks'[s], vault')
    BY <1>7, <2>3, <2>4 DEF Half
  <2>6. Paired(vault') \/ Pending(tasks'[s])
    BY <1>7, <1>8, <2>4
  <2>7. \A x \in Slots \ {s} : Half(tasks'[x], vault')
    BY <1>6, <2>2 DEF Half
  <2>8. LoneWriter'
    BY <1>6, <2>2 DEF LoneWriter
  <2> QED BY <2>5, <2>6, <2>7, <2>8 DEF Whole
<1> QED BY <1>9, <1>10

LEMMA WholeQuiet ==
  ASSUME TypeOK, Whole, NEW s \in Slots, NEW step \in QuietSteps, At(s, step), NEW task \in Tasks,
         task.steps = tasks[s].steps, Advance(s, task), UNCHANGED <<vault, torn>>
  PROVE  Whole'
<1> SUFFICES ASSUME ~ torn' PROVE Whole'
  BY DEF Whole
<1>1. LoneWriter /\ (\A x \in Slots : Half(tasks[x], vault)) /\ (Paired(vault) \/ \E x \in Slots : Pending(tasks[x]))
  BY DEF Whole
<1>2. tasks'[s] = Following(task) /\ \A x \in Slots \ {s} : tasks'[x] = tasks[x]
  BY DEF Advance, TypeOK
<1>3. task.steps # <<>> /\ Head(tasks[s].steps) = step
  BY DEF At
<1>4. ~ Pending(tasks[s])
  BY <1>3, ItemsOfSteps DEF Pending, Pairing, QuietSteps
<1>5. Half(tasks'[s], vault') /\ (Writes(tasks'[s]) => Writes(tasks[s]))
  BY <1>2, <1>3, FollowingFresh DEF Writes
<1>6. LoneWriter'
  BY <1>1, <1>2, <1>5 DEF LoneWriter
<1>7. \A x \in Slots \ {s} : Half(tasks'[x], vault')
  BY <1>1, <1>2
<1>8. Paired(vault') \/ \E x \in Slots : Pending(tasks'[x])
  BY <1>1, <1>2, <1>4
<1> QED BY <1>5, <1>6, <1>7, <1>8 DEF Whole

LEMMA WholeHandler ==
  ASSUME TypeOK, Whole, NEW s \in Slots,
         \/ Read(s) \/ Show(s) \/ Restore(s) \/ Decrypt(s) \/ loadBiometricPassphrase(s)
         \/ Unlocked(s) \/ Opened(s) \/ Adopted(s) \/ Forgotten(s)
  PROVE  Whole'
<1>1. tasks[s] \in Tasks /\ vault \in Vaults
  BY DEF TypeOK
<1>2. CASE Read(s)
  <2>1. /\ [tasks[s] EXCEPT !.seen = getDeviceSecuritySnapshot] \in Tasks
        /\ [tasks[s] EXCEPT !.seen = getDeviceSecuritySnapshot].steps = tasks[s].steps
    BY <1>1, SeenType DEF Tasks
  <2> QED BY <1>2, <2>1, WholeQuiet DEF Read, QuietSteps
<1>3. CASE loadBiometricPassphrase(s)
  <2>1. /\ [tasks[s] EXCEPT !.pass = vault.secret] \in Tasks
        /\ [tasks[s] EXCEPT !.pass = vault.secret].steps = tasks[s].steps
    BY <1>1 DEF Tasks, Vaults
  <2> QED BY <1>3, <2>1, WholeQuiet DEF loadBiometricPassphrase, QuietSteps
<1>4. CASE Show(s)
  BY <1>1, <1>4, WholeQuiet DEF Show, QuietSteps
<1>5. CASE Restore(s)
  BY <1>1, <1>5, WholeQuiet DEF Restore, QuietSteps
<1>6. CASE Decrypt(s)
  BY <1>1, <1>6, WholeQuiet DEF Decrypt, QuietSteps
<1>7. CASE Unlocked(s)
  BY <1>1, <1>7, WholeQuiet DEF Unlocked, QuietSteps
<1>8. CASE Opened(s)
  BY <1>1, <1>8, WholeQuiet DEF Opened, QuietSteps
<1>9. CASE Adopted(s)
  BY <1>1, <1>9, WholeQuiet DEF Adopted, QuietSteps
<1>10. CASE Forgotten(s)
  BY <1>1, <1>10, WholeQuiet DEF Forgotten, QuietSteps
<1> QED BY <1>2, <1>3, <1>4, <1>5, <1>6, <1>7, <1>8, <1>9, <1>10

\* Only a write of the pair that fails leaves half of it.
LEMMA WholeFail ==
  ASSUME TypeOK, Whole, NEW s \in Slots, Fail(s)
  PROVE  Whole'
<1> SUFFICES ASSUME ~ torn' PROVE Whole'
  BY DEF Whole
<1>1. PICK rest \in SUBSET tasks[s].items :
        tasks' = [tasks EXCEPT ![s] =
            IF rest = {} THEN NoTask
            ELSE [tasks[s] EXCEPT !.steps = <<Head(@)>>, !.items = rest, !.promise = Nothing]]
  BY DEF Fail
<1>2. ~ torn /\ ~ Pairing(tasks[s]) /\ vault' = vault
  BY DEF Fail
<1>3. LoneWriter /\ (\A x \in Slots : Half(tasks[x], vault)) /\ (Paired(vault) \/ \E x \in Slots : Pending(tasks[x]))
  BY <1>2 DEF Whole
<1>4. \A x \in Slots \ {s} : tasks'[x] = tasks[x]
  BY <1>1 DEF TypeOK
<1>5. tasks[s] \in Tasks /\ tasks[s].steps # <<>>
  BY BusyTask DEF Fail
<1>6. ~ Pairing(tasks'[s]) /\ (Writes(tasks'[s]) => Writes(tasks[s]))
  <2>1. CASE rest = {}
    <3>1. tasks'[s] = NoTask
      BY <1>1, <2>1 DEF TypeOK
    <3> QED BY <3>1, IdleTask DEF NoTask, Pairing
  <2>2. CASE rest # {}
    <3> DEFINE step == Head(tasks[s].steps)
    <3>1. tasks'[s].steps = <<step>>
      BY <1>1, <1>5, <2>2 DEF TypeOK, Tasks
    <3>2. step \in Steps /\ 1 \in DOMAIN tasks[s].steps /\ step = tasks[s].steps[1]
      BY <1>5, TailSteps DEF Tasks
    <3> HIDE DEF step
    <3>3. DOMAIN <<step>> = {1} /\ <<step>>[1] = step /\ Head(<<step>>) = step
      BY <3>2, OneStep
    <3>4. "secret" \notin Items(step)
      BY <1>2, <1>5 DEF Pairing, step
    <3> QED BY <3>1, <3>2, <3>3, <3>4 DEF Pairing, Writes
  <2> QED BY <2>1, <2>2
<1>7. Half(tasks'[s], vault') /\ \A x \in Slots \ {s} : Half(tasks'[x], vault')
  BY <1>2, <1>3, <1>4, <1>6 DEF Half
<1>8. LoneWriter'
  BY <1>3, <1>4, <1>6 DEF LoneWriter
<1>9. Paired(vault') \/ \E x \in Slots : Pending(tasks'[x])
  BY <1>2, <1>3, <1>4 DEF Pending
<1> QED BY <1>7, <1>8, <1>9 DEF Whole

\* With no write of the pair under way, a vault stays paired.
LEMMA WholeBooted ==
  ASSUME tasks' \in Booted, ~ torn' => Paired(vault')
  PROVE  Whole'
<1>1. \A x \in Slots : ~ Writes(tasks'[x])
  BY BootedInv
<1>2. \A x \in Slots : tasks'[x] = Booting \/ tasks'[x] = NoTask
  BY DEF Booted
<1>3. ~ Pairing(NoTask) /\ ~ Pairing(Booting)
  <2>1. Booting.steps = <<"read", "restore">> /\ Head(<<"read", "restore">>) = "read"
    BY DEF Booting, NoTask
  <2> QED BY <2>1, ItemsOfSteps DEF NoTask, Pairing
<1>4. \A x \in Slots : Half(tasks'[x], vault')
  BY <1>2, <1>3 DEF Half
<1> QED BY <1>1, <1>4 DEF Whole, LoneWriter

LEMMA WholeEnd == ASSUME Whole, EndApp PROVE Whole'
<1>1. tasks' \in Booted /\ vault' = vault
  BY DEF EndApp
<1>2. ASSUME ~ torn' PROVE Paired(vault)
  <2>1. ~ torn /\ \A s \in Slots : ~ Pairing(tasks[s])
    BY <1>2 DEF EndApp
  <2> QED BY <2>1 DEF Whole, Pending
<1> QED BY <1>1, <1>2, WholeBooted

LEMMA WholeSame ==
  ASSUME Whole, UNCHANGED <<vault, tasks, torn>>
  PROVE  Whole'
  BY DEF Whole, LoneWriter

LEMMA InitWhole == Init => Whole
<1> SUFFICES ASSUME Init PROVE Whole
  OBVIOUS
<1>1. tasks \in Booted /\ Paired(vault)
  BY DEF Init, Paired
<1>2. \A x \in Slots : ~ Writes(tasks[x])
  BY <1>1, BootedInv
<1>3. \A x \in Slots : tasks[x] = Booting \/ tasks[x] = NoTask
  BY <1>1 DEF Booted
<1>4. ~ Pairing(NoTask) /\ ~ Pairing(Booting)
  <2>1. Booting.steps = <<"read", "restore">> /\ Head(<<"read", "restore">>) = "read"
    BY DEF Booting, NoTask
  <2> QED BY <2>1, ItemsOfSteps DEF NoTask, Pairing
<1>5. \A x \in Slots : Half(tasks[x], vault)
  BY <1>3, <1>4 DEF Half
<1> QED BY <1>1, <1>2, <1>5 DEF Whole, LoneWriter

LEMMA InitInv == Init => Inv
  BY InitCore, InitWhole DEF Inv

LEMMA NextInv == Inv /\ [Next]_vars => Inv'
<1> SUFFICES ASSUME Inv, [Next]_vars PROVE Whole'
  BY NextCore DEF Inv
<1>1. TypeOK /\ Whole
  BY DEF Inv, Core
<1>2. CASE CreateWallet \/ UnlockWallet \/ BiometricUnlock \/ ImportKeystore \/ ForgetDeviceWallet
  BY <1>1, <1>2, TapBegins, WholeBegin
<1>3. CASE LockWallet \/ TogglePreference \/ Background \/ Foreground
  BY <1>1, <1>3, WholeSame DEF LockWallet, TogglePreference, Background, Foreground
<1>4. CASE EndApp
  BY <1>1, <1>4, WholeEnd
<1>5. ASSUME NEW s \in Slots,
        \/ Write(s) \/ Read(s) \/ Show(s) \/ Restore(s) \/ Decrypt(s) \/ loadBiometricPassphrase(s)
        \/ Unlocked(s) \/ Opened(s) \/ Adopted(s) \/ Forgotten(s) \/ Fail(s)
      PROVE Whole'
  BY <1>1, <1>5, WholeWrite, WholeHandler, WholeFail
<1>6. CASE UNCHANGED vars
  BY <1>1, <1>6, WholeSame DEF vars
<1> QED BY <1>2, <1>3, <1>4, <1>5, <1>6 DEF Next

\* Every variable keeps its type: a handler that shows a snapshot has read one,
\* and one that sets the wallet has a keystore.
THEOREM MobileTypeCorrect == Spec => []TypeOK
<1>1. Inv => TypeOK
  BY DEF Inv, Core
<1> QED BY <1>1, InitInv, NextInv, PTL DEF Spec

\* The wallet that signs is that of the keystore shown, in the foreground, but
\* for handlers that end after another one or in the background
\* (handleUnlockWallet, handleImportKeystore, handleForgetDeviceWallet, the
\* AppState listener).
THEOREM MobileSessionIsCurrent == Spec => []SessionIsCurrent
<1>1. Inv => SessionIsCurrent
  BY DEF Inv, Core, SessionInv
<1> QED BY <1>1, InitInv, NextInv, PTL DEF Spec

\* A handler that was not interfered with leaves on the device what the
\* preferences asked for, and no passphrase without quick unlock but one that a
\* torn write had left there before (applyDeviceSecurity, handleImportKeystore,
\* handleForgetDeviceWallet).
THEOREM MobileVaultSettles == Spec => []VaultSettles
<1>1. Inv => VaultSettles
  BY DEF Inv, Core, VaultInv
<1> QED BY <1>1, InitInv, NextInv, PTL DEF Spec

-----------------------------------------------------------------------------
(***************************************************************************)
(* What SessionMatchesStorage needs of the handlers under way: whoever     *)
(* began to decrypt a keystore will find one on the page, and a page with  *)
(* a keystore shows no legacy wallet.                                      *)
(***************************************************************************)
KeystoreStays ==
  page.shown =>
    /\ page.keystore # None => page.legacyWallet = None
    /\ page.wallet # None => page.keystore # None
    /\ \A s \in PageSlots : working[s].kind \in {"unlock", "change"} => page.keystore # None

(***************************************************************************)
(* What EstimateIsCurrent needs: a request that was not cancelled asks     *)
(* about the wallet and the form of the page as it is.                     *)
(***************************************************************************)
AskedIsCurrent ==
  \A q \in asked : q = [panel |-> q.panel, sender |-> page.wallet, form |-> page.form]

PageSessionInv == KeystoreStays /\ SessionMatchesStorage
EstimateInv == AskedIsCurrent /\ EstimateIsCurrent

-----------------------------------------------------------------------------
(* Types. *)

LEMMA NothingIsNoKey == None \notin Wallets /\ None \notin WalletKeystores /\ None \notin Forms
  BY WalletAppAssumption

\* The setters of a page keep the types, whichever effects follow.
LEMMA EstimateTypes ==
  ASSUME PageTypeOK, NEW p \in Pages, NEW again, Estimate(p, again)
  PROVE  estimates' \in [Panels -> Questions \cup {None}] /\ asked' \subseteq Questions
<1> DEFINE rerun == {panel \in Panels :
                  \/ panel \in again
                  \/ Estimable(panel, p) # Estimable(panel, page)
                  \/ p.wallet # page.wallet
                  \/ p.form # page.form}
<1>1. estimates' = [panel \in Panels |->
                      IF panel \in rerun /\ ~ Estimable(panel, p) THEN None ELSE estimates[panel]]
  BY DEF Estimate
<1>2. asked' = {q \in asked : q.panel \notin rerun} \cup
           {[panel |-> panel, sender |-> p.wallet, form |-> p.form] :
              panel \in {x \in rerun : Estimable(x, p)}}
  BY DEF Estimate
<1> HIDE DEF rerun
<1>3. estimates' \in [Panels -> Questions \cup {None}]
  BY <1>1 DEF PageTypeOK
<1>4. asked' \subseteq Questions
  <2> SUFFICES ASSUME NEW panel \in {x \in rerun : Estimable(x, p)}
               PROVE  [panel |-> panel, sender |-> p.wallet, form |-> p.form] \in Questions
    BY <1>2 DEF PageTypeOK
  <2>1. panel \in Panels
    BY DEF rerun
  <2>2. p.wallet \in Wallets /\ p.form \in Forms
    BY DEF Estimable, Pages
  <2> QED BY <2>1, <2>2 DEF Questions
<1> QED BY <1>3, <1>4

LEMMA ShowTypes ==
  ASSUME PageTypeOK, NEW p \in Pages, NEW again, Render(p, again)
  PROVE  /\ page' \in Pages
         /\ estimates' \in [Panels -> Questions \cup {None}]
         /\ asked' \subseteq Questions
<1>1. CASE page.shown
  BY <1>1, EstimateTypes DEF Render
<1>2. CASE ~ page.shown
  BY <1>2 DEF Render, PageTypeOK
<1> QED BY <1>1, <1>2

\* Changes of single fields of a page.
LEMMA PageTypes ==
  ASSUME NEW p \in Pages, NEW wallet \in Wallets \cup {None}, NEW ks \in WalletKeystores \cup {None},
         NEW key \in Wallets, NEW form \in Forms
  PROVE  /\ [p EXCEPT !.keystore = ks, !.legacyWallet = None, !.wallet = wallet] \in Pages
         /\ [p EXCEPT !.wallet = wallet] \in Pages
         /\ [p EXCEPT !.keystore = ks] \in Pages
         /\ [p EXCEPT !.form = form] \in Pages
         /\ [p EXCEPT !.account = key] \in Pages
         /\ [p EXCEPT !.preview = key] \in Pages
         /\ [p EXCEPT !.preview = None] \in Pages
         /\ handleLockWallet(p) \in Pages
  BY DEF Pages, handleLockWallet

LEMMA RefreshTypes ==
  ASSUME NEW key \in Wallets \cup {None}
  PROVE  refresh(key) \in Work \cup {NoWork} /\ refresh(key).kind \in {"refresh", "none"}
  BY DEF refresh, Work, NoWork

LEMMA LoadedTypes ==
  ASSUME NEW contents \in Contents, NEW form \in Forms
  PROVE  /\ bootstrapWallet(contents, form) \in Pages
         /\ activeAddress(bootstrapWallet(contents, form)) \in Wallets \cup {None}
<1>1. /\ contents.kind = "keystore" => contents.keystore \in WalletKeystores
      /\ contents.kind = "legacy" => contents.key \in Wallets
  BY DEF Contents
<1>2. bootstrapWallet(contents, form) \in Pages
  BY <1>1 DEF bootstrapWallet, Pages
<1>3. \A p \in Pages : activeAddress(p) \in Wallets \cup {None}
  BY DEF activeAddress, Pages, WalletKeystores
<1> QED BY <1>2, <1>3

LEMMA TaskTypes ==
  ASSUME NEW t \in Work \cup {NoWork}
  PROVE  /\ t.kind = "store" => t.key \in Wallets /\ t.pass \in Passphrases
         /\ t.kind = "unlock" => t.keystore \in WalletKeystores /\ t.pass \in Passphrases
         /\ t.kind = "change" => t.keystore \in WalletKeystores /\ t.pass \in Passphrases /\ t.next \in Passphrases
         /\ t.kind \in {"estimate", "send", "preview", "faucet", "refresh"} => t.key \in Wallets
  BY DEF Work, NoWork

\* A keystore opens to the wallet it names, with its passphrase only.
LEMMA DecryptWallet ==
  ASSUME NEW ks \in WalletKeystores, NEW pass \in Passphrases, decryptWallet(ks, pass) # None
  PROVE  decryptWallet(ks, pass) = ks.holds /\ ks.holds \in Wallets
  BY DEF decryptWallet, WalletKeystores

LEMMA EncryptWallet ==
  ASSUME NEW key \in Wallets, NEW pass \in Passphrases
  PROVE  /\ encryptWallet(key, pass) \in WalletKeystores
         /\ encryptWallet(key, pass).holds = key
         /\ StoredKeystore(encryptWallet(key, pass)) \in Contents
  BY DEF encryptWallet, WalletKeystores, StoredKeystore, Contents

LEMMA PageBeginTypes ==
  ASSUME PageTypeOK, NEW task \in Work, BeginWork(task), created' \subseteq Wallets
  PROVE  PageTypeOK'
<1>1. working' \in [PageSlots -> Work \cup {NoWork}]
  BY DEF BeginWork, PageTypeOK
<1>2. clicks' \in 0 .. MaxClicks
  BY WalletAppAssumption DEF BeginWork, Click, PageTypeOK
<1> QED BY <1>1, <1>2 DEF BeginWork, PageTypeOK

LEMMA EndTypes ==
  ASSUME PageTypeOK, NEW s \in PageSlots, NEW next \in Work \cup {NoWork}, End(s, next)
  PROVE  /\ working' \in [PageSlots -> Work \cup {NoWork}]
         /\ created' \subseteq Wallets
         /\ clicks' \in 0 .. MaxClicks
  BY DEF End, PageTypeOK

LEMMA PageInitTypes == PageInit => PageTypeOK
<1> SUFFICES ASSUME NEW contents \in Contents, NEW form \in Forms, NEW slot \in PageSlots,
                    LET p == bootstrapWallet(contents, form)
                    IN  /\ contents.kind = "keystore" =>
                             contents.keystore.holds = contents.keystore.address \/ contents.keystore \in KeystoreFiles
                        /\ page = p
                        /\ stored = IF contents.kind = "invalid" THEN [kind |-> "none"] ELSE contents
                        /\ estimates = [panel \in Panels |-> None]
                        /\ asked = {}
                        /\ working = [s \in PageSlots |-> IF s = slot THEN refresh(activeAddress(p)) ELSE NoWork]
                        /\ created = Taken(contents)
                        /\ pageOvertaken = FALSE
                        /\ clicks = 0
             PROVE  PageTypeOK
  BY DEF PageInit
<1>1. page \in Pages /\ activeAddress(page) \in Wallets \cup {None}
  BY LoadedTypes
<1>2. stored \in Contents
  BY DEF Contents
<1>3. working \in [PageSlots -> Work \cup {NoWork}]
  BY <1>1, RefreshTypes
<1>4. created \subseteq Wallets
  BY WalletAppAssumption DEF Taken, Contents, WalletKeystores
<1>5. clicks \in 0 .. MaxClicks
  BY WalletAppAssumption
<1> QED BY <1>1, <1>2, <1>3, <1>4, <1>5 DEF PageTypeOK

LEMMA LoadTypes ==
  ASSUME PageTypeOK, NEW slot \in PageSlots, Load(page.form, slot), UNCHANGED created, clicks' \in 0 .. MaxClicks
  PROVE  PageTypeOK'
<1> DEFINE p == bootstrapWallet(stored, page.form)
<1>1. stored \in Contents /\ page.form \in Forms
  BY DEF PageTypeOK, Pages
<1>2. p \in Pages /\ activeAddress(p) \in Wallets \cup {None}
  BY <1>1, LoadedTypes
<1>3. page' = p /\ working' = [s \in PageSlots |-> IF s = slot THEN refresh(activeAddress(p)) ELSE NoWork]
  BY DEF Load
<1>4. working' \in [PageSlots -> Work \cup {NoWork}]
  BY <1>2, <1>3, RefreshTypes
<1>5. stored' \in Contents
  BY <1>1 DEF Load, Contents
<1>6. estimates' \in [Panels -> Questions \cup {None}] /\ asked' \subseteq Questions /\ pageOvertaken' \in BOOLEAN
  BY DEF Load
<1> QED BY <1>2, <1>3, <1>4, <1>5, <1>6 DEF PageTypeOK

LEMMA ClickTypes ==
  ASSUME PageTypeOK, clicks < MaxClicks, clicks' = clicks + 1
  PROVE  clicks' \in 0 .. MaxClicks
  BY WalletAppAssumption DEF PageTypeOK

LEMMA FinishTypes ==
  ASSUME PageTypeOK, NEW s \in PageSlots, Finish(s)
  PROVE  PageTypeOK'
<1>1. page \in Pages /\ working[s] \in Work \cup {NoWork}
  BY DEF PageTypeOK
<1>2. NoWork \in Work \cup {NoWork}
  OBVIOUS
<1>3. CASE WorkFails(s)
  BY <1>2, <1>3, EndTypes DEF WorkFails, PageTypeOK
<1>4. CASE StoreEncryptedWallet(s)
  <2> DEFINE key == working[s].key
             ks == encryptWallet(key, working[s].pass)
             p == [page EXCEPT !.keystore = ks, !.legacyWallet = None, !.wallet = key]
  <2>1. key \in Wallets /\ ks \in WalletKeystores /\ StoredKeystore(ks) \in Contents
    BY <1>1, <1>4, TaskTypes, EncryptWallet DEF StoreEncryptedWallet
  <2>2. p \in Pages
    BY <1>1, <2>1 DEF Pages
  <2>3. Render(p, {}) /\ End(s, refresh(key)) /\ stored' = StoredKeystore(ks) /\ pageOvertaken' = FALSE
    BY <1>4 DEF StoreEncryptedWallet
  <2> HIDE DEF p, ks, key
  <2> QED BY <2>1, <2>2, <2>3, ShowTypes, EndTypes, RefreshTypes DEF PageTypeOK
<1>5. CASE PageUnlocked(s)
  <2> DEFINE key == decryptWallet(working[s].keystore, working[s].pass)
             p == [page EXCEPT !.wallet = key]
  <2>1. key \in Wallets
    BY <1>1, <1>5, TaskTypes, DecryptWallet DEF PageUnlocked
  <2>2. p \in Pages
    BY <1>1, <2>1 DEF Pages
  <2>3. Render(p, {}) /\ End(s, refresh(key)) /\ UNCHANGED stored
        /\ pageOvertaken' = (pageOvertaken \/ Overtakes(s))
    BY <1>5 DEF PageUnlocked
  <2>4. pageOvertaken' \in BOOLEAN
    BY <2>3 DEF PageTypeOK, Overtakes
  <2> HIDE DEF p, key
  <2> QED BY <2>1, <2>2, <2>3, <2>4, ShowTypes, EndTypes, RefreshTypes DEF PageTypeOK
<1>6. CASE PassphraseChanged(s)
  <2> DEFINE key == decryptWallet(working[s].keystore, working[s].pass)
             ks == encryptWallet(key, working[s].next)
             p == [page EXCEPT !.keystore = ks]
  <2>1. key \in Wallets
    BY <1>1, <1>6, TaskTypes, DecryptWallet DEF PassphraseChanged
  <2>2. ks \in WalletKeystores /\ StoredKeystore(ks) \in Contents
    BY <1>1, <1>6, <2>1, TaskTypes, EncryptWallet DEF PassphraseChanged
  <2>3. p \in Pages
    BY <1>1, <2>2 DEF Pages
  <2>4. Render(p, {}) /\ End(s, NoWork) /\ stored' = StoredKeystore(ks)
        /\ pageOvertaken' = (pageOvertaken \/ Overtakes(s))
    BY <1>6 DEF PassphraseChanged
  <2>5. pageOvertaken' \in BOOLEAN
    BY <2>4 DEF PageTypeOK, Overtakes
  <2> HIDE DEF p, ks, key
  <2> QED BY <1>2, <2>2, <2>3, <2>4, <2>5, ShowTypes, EndTypes DEF PageTypeOK
<1>7. CASE FeeEstimated(s)
  <2>1. [kind |-> "send", key |-> working[s].key] \in Work
    BY <1>1, <1>7, TaskTypes DEF FeeEstimated, Work
  <2> QED BY <1>7, <2>1, EndTypes DEF FeeEstimated, PageTypeOK
<1>8. CASE Sent(s)
  <2>1. PICK p \in Pages : Render(p, {})
    BY <1>1, <1>8 DEF Sent, Pages
  <2>2. working[s].key \in Wallets
    BY <1>1, <1>8, TaskTypes DEF Sent
  <2>3. End(s, refresh(working[s].key)) /\ UNCHANGED <<stored, pageOvertaken>>
    BY <1>8 DEF Sent
  <2> QED BY <2>1, <2>2, <2>3, ShowTypes, EndTypes, RefreshTypes DEF PageTypeOK
<1>9. CASE Previewed(s)
  <2>1. working[s].key \in Wallets
    BY <1>1, <1>9, TaskTypes DEF Previewed
  <2>2. [page EXCEPT !.preview = working[s].key] \in Pages
    BY <1>1, <2>1 DEF Pages
  <2>3. Render([page EXCEPT !.preview = working[s].key], {}) /\ End(s, NoWork) /\ UNCHANGED <<stored, pageOvertaken>>
    BY <1>9 DEF Previewed
  <2> QED BY <1>2, <2>2, <2>3, ShowTypes, EndTypes DEF PageTypeOK
<1>10. CASE FaucetAnswered(s)
  <2>1. refresh(working[s].key) \in Work \cup {NoWork}
    BY <1>1, <1>10, TaskTypes, RefreshTypes DEF FaucetAnswered
  <2> QED BY <1>10, <2>1, EndTypes DEF FaucetAnswered, PageTypeOK
<1>11. CASE Refreshed(s)
  <2>1. working[s].key \in Wallets
    BY <1>1, <1>11, TaskTypes DEF Refreshed
  <2>2. [page EXCEPT !.account = working[s].key] \in Pages
    BY <1>1, <2>1 DEF Pages
  <2>3. Render([page EXCEPT !.account = working[s].key], {"action"}) /\ End(s, NoWork)
        /\ UNCHANGED <<stored, pageOvertaken>>
    BY <1>11 DEF Refreshed
  <2> QED BY <1>2, <2>2, <2>3, ShowTypes, EndTypes DEF PageTypeOK
<1> QED BY <1>3, <1>4, <1>5, <1>6, <1>7, <1>8, <1>9, <1>10, <1>11 DEF Finish

LEMMA NextTypes == PageTypeOK /\ [PageNext]_pageVars => PageTypeOK'
<1> SUFFICES ASSUME PageTypeOK, [PageNext]_pageVars PROVE PageTypeOK'
  OBVIOUS
<1>1. page \in Pages
  BY DEF PageTypeOK
<1>2. CASE CreateSecureWallet
  <2>1. PICK key \in Wallets, pass \in Passphrases :
          BeginWork([kind |-> "store", key |-> key, pass |-> pass]) /\ created' = created \cup {key}
    BY <1>2 DEF CreateSecureWallet
  <2>2. [kind |-> "store", key |-> key, pass |-> pass] \in Work
    BY DEF Work
  <2> QED BY <2>1, <2>2, PageBeginTypes DEF PageTypeOK
<1>3. CASE SecureLegacyWallet
  <2>1. PICK pass \in Passphrases : BeginWork([kind |-> "store", key |-> page.legacyWallet, pass |-> pass])
    BY <1>3 DEF SecureLegacyWallet
  <2>2. [kind |-> "store", key |-> page.legacyWallet, pass |-> pass] \in Work
    BY <1>1, <1>3 DEF SecureLegacyWallet, Work, Pages
  <2> QED BY <1>3, <2>1, <2>2, PageBeginTypes DEF PageTypeOK, SecureLegacyWallet
<1>4. CASE PageUnlockWallet
  <2>1. PICK pass \in Passphrases : BeginWork([kind |-> "unlock", keystore |-> page.keystore, pass |-> pass])
    BY <1>4 DEF PageUnlockWallet
  <2>2. [kind |-> "unlock", keystore |-> page.keystore, pass |-> pass] \in Work
    BY <1>1, <1>4 DEF PageUnlockWallet, Work, Pages
  <2> QED BY <1>4, <2>1, <2>2, PageBeginTypes DEF PageTypeOK, PageUnlockWallet
<1>5. CASE ChangePassphrase
  <2>1. PICK pass \in Passphrases, next \in Passphrases :
          BeginWork([kind |-> "change", keystore |-> page.keystore, pass |-> pass, next |-> next])
    BY <1>5 DEF ChangePassphrase
  <2>2. [kind |-> "change", keystore |-> page.keystore, pass |-> pass, next |-> next] \in Work
    BY <1>1, <1>5 DEF ChangePassphrase, Work, Pages
  <2> QED BY <1>5, <2>1, <2>2, PageBeginTypes DEF PageTypeOK, ChangePassphrase
<1>6. CASE PageImportKeystore
  <2>1. PICK file \in KeystoreFiles, s \in PageSlots :
          /\ stored' = StoredKeystore(file)
          /\ Render([page EXCEPT !.keystore = file, !.legacyWallet = None, !.wallet = None], {})
          /\ working' = [working EXCEPT ![s] = refresh(file.address)]
    BY <1>6 DEF PageImportKeystore
  <2>2. file \in WalletKeystores /\ file.address \in Wallets \cup {None}
    BY WalletAppAssumption DEF WalletKeystores
  <2>3. [page EXCEPT !.keystore = file, !.legacyWallet = None, !.wallet = None] \in Pages
    BY <1>1, <2>2 DEF Pages
  <2>4. working' \in [PageSlots -> Work \cup {NoWork}]
    BY <2>1, <2>2, RefreshTypes DEF PageTypeOK
  <2>5. stored' \in Contents
    BY <2>1, <2>2 DEF StoredKeystore, Contents
  <2>6. clicks' \in 0 .. MaxClicks
    BY <1>6, ClickTypes DEF PageImportKeystore, Click
  <2> QED BY <1>6, <2>1, <2>3, <2>4, <2>5, <2>6, ShowTypes DEF PageTypeOK, PageImportKeystore
<1>7. CASE Transact
  <2>1. PICK kind \in {"estimate", "preview", "faucet"} : BeginWork([kind |-> kind, key |-> page.wallet])
    BY <1>7 DEF Transact
  <2>2. [kind |-> kind, key |-> page.wallet] \in Work
    BY <1>1, <1>7 DEF Transact, Work, Pages
  <2> QED BY <1>7, <2>1, <2>2, PageBeginTypes DEF PageTypeOK, Transact
<1>8. CASE EditForm
  <2>1. PICK form \in Forms : Render([page EXCEPT !.form = form], {})
    BY <1>8 DEF EditForm
  <2>2. [page EXCEPT !.form = form] \in Pages
    BY <1>1 DEF Pages
  <2>3. clicks' \in 0 .. MaxClicks
    BY <1>8, ClickTypes DEF EditForm, Click
  <2> QED BY <1>8, <2>1, <2>2, <2>3, ShowTypes DEF PageTypeOK, EditForm
<1>9. CASE LockButton
  <2>1. page' \in Pages
    BY <1>1, <1>9 DEF LockButton, Pages
  <2>2. clicks' \in 0 .. MaxClicks
    BY <1>9, ClickTypes DEF LockButton, Click
  <2> QED BY <1>9, <2>1, <2>2 DEF PageTypeOK, LockButton
<1>10. CASE Reload
  <2>1. clicks' \in 0 .. MaxClicks
    BY <1>10, ClickTypes DEF Reload
  <2> QED BY <1>10, <2>1, LoadTypes DEF Reload
<1>11. CASE AutoLock
  <2>1. handleLockWallet(page) \in Pages
    BY <1>1 DEF handleLockWallet, Pages
  <2> QED BY <1>11, <2>1, ShowTypes DEF PageTypeOK, AutoLock
<1>12. CASE RefreshTick
  <2>1. activeAddress(page) \in Wallets \cup {None}
    BY <1>1 DEF activeAddress, Pages, WalletKeystores
  <2>2. working' \in [PageSlots -> Work \cup {NoWork}]
    BY <1>12, <2>1, RefreshTypes DEF RefreshTick, PageTypeOK
  <2> QED BY <1>12, <2>2 DEF PageTypeOK, RefreshTick
<1>13. CASE AnswerEstimate
  <2>1. estimates' \in [Panels -> Questions \cup {None}] /\ asked' \subseteq Questions
    BY <1>13 DEF AnswerEstimate, PageTypeOK, Questions
  <2> QED BY <1>13, <2>1 DEF PageTypeOK, AnswerEstimate
<1>14. CASE \E s \in PageSlots : Finish(s)
  BY <1>14, FinishTypes
<1>15. CASE UNCHANGED pageVars
  BY <1>15 DEF PageTypeOK, pageVars
<1> QED BY <1>2, <1>3, <1>4, <1>5, <1>6, <1>7, <1>8, <1>9, <1>10, <1>11, <1>12, <1>13, <1>14, <1>15
        DEF PageNext

\* The page, its estimates and what is under way have their types in every
\* state (readStoredWalletData and every setter of the page).
THEOREM WalletTypeCorrect == PageSpec => []PageTypeOK
  BY PageInitTypes, NextTypes, PTL DEF PageSpec

-----------------------------------------------------------------------------
(* The session. *)

LEMMA InitSession == PageInit => PageSessionInv
  BY NothingIsNoKey DEF PageInit, PageSessionInv, KeystoreStays, SessionMatchesStorage, bootstrapWallet,
     Contents, StoredKeystore, refresh, NoWork

\* A handler that begins leaves the session alone, and one that decrypts
\* begins with a keystore on the page.
LEMMA PageBeginSession ==
  ASSUME PageTypeOK, PageSessionInv, NEW task \in Work, BeginWork(task),
         task.kind \in {"unlock", "change"} => page.keystore # None
  PROVE  PageSessionInv'
<1>1. UNCHANGED <<stored, page, pageOvertaken>>
  BY DEF BeginWork
<1>2. \A s \in PageSlots : working'[s] = working[s] \/ working'[s] = task
  BY DEF BeginWork, PageTypeOK
<1> QED BY <1>1, <1>2 DEF PageSessionInv, KeystoreStays, SessionMatchesStorage

\* So does one that ends without touching keystore, wallet or storage.
LEMMA QuietSession ==
  ASSUME PageTypeOK, PageSessionInv, UNCHANGED <<stored, pageOvertaken>>,
         page'.shown = page.shown, page'.wallet \in {page.wallet, None},
         page'.keystore = page.keystore, page'.legacyWallet = page.legacyWallet,
         \A s \in PageSlots : working'[s] = working[s] \/ working'[s].kind \notin {"unlock", "change"}
  PROVE  PageSessionInv'
  BY DEF PageSessionInv, KeystoreStays, SessionMatchesStorage

LEMMA EndedTasks ==
  ASSUME PageTypeOK, NEW s \in PageSlots, NEW next, End(s, next), next.kind \notin {"unlock", "change"}
  PROVE  \A x \in PageSlots : working'[x] = working[x] \/ working'[x].kind \notin {"unlock", "change"}
  BY DEF PageTypeOK, End

LEMMA LoadSession ==
  ASSUME PageTypeOK, NEW slot \in PageSlots, Load(page.form, slot)
  PROVE  PageSessionInv'
<1>1. stored \in Contents
  BY DEF PageTypeOK
<1>2. /\ page' = bootstrapWallet(stored, page.form)
      /\ stored' = IF stored.kind = "invalid" THEN [kind |-> "none"] ELSE stored
  BY DEF Load
<1>3. \A s \in PageSlots : working'[s].kind \notin {"unlock", "change"}
  BY DEF Load, refresh, NoWork
<1>4. KeystoreStays'
  BY <1>1, <1>2, <1>3 DEF KeystoreStays, bootstrapWallet
<1>5. page'.wallet = None
  BY <1>2 DEF bootstrapWallet
<1>6. page'.keystore # None => stored' = StoredKeystore(page'.keystore)
  BY <1>1, <1>2 DEF bootstrapWallet, Contents, StoredKeystore
<1>7. page'.legacyWallet # None => stored' = [kind |-> "legacy", key |-> page'.legacyWallet]
  BY <1>1, <1>2 DEF bootstrapWallet, Contents
<1> QED BY <1>4, <1>5, <1>6, <1>7 DEF PageSessionInv, SessionMatchesStorage

LEMMA FinishSession ==
  ASSUME PageTypeOK, PageSessionInv, NEW s \in PageSlots, Finish(s)
  PROVE  PageSessionInv'
<1>1. page \in Pages /\ working[s] \in Work \cup {NoWork}
  BY DEF PageTypeOK
<1>2. NoWork.kind \notin {"unlock", "change"} /\ \A key : refresh(key).kind \notin {"unlock", "change"}
  BY DEF NoWork, refresh
<1>3. CASE WorkFails(s)
  BY <1>2, <1>3, EndedTasks, QuietSession DEF WorkFails
<1>4. CASE StoreEncryptedWallet(s)
  <2> DEFINE key == working[s].key
             ks == encryptWallet(key, working[s].pass)
             p == [page EXCEPT !.keystore = ks, !.legacyWallet = None, !.wallet = key]
  <2>1. ks \in WalletKeystores /\ ks.holds = key
    BY <1>1, <1>4, TaskTypes, EncryptWallet DEF StoreEncryptedWallet
  <2>2. p.keystore = ks /\ p.legacyWallet = None /\ p.wallet = key
    BY <1>1 DEF Pages
  <2>3. Render(p, {}) /\ stored' = StoredKeystore(ks)
    BY <1>4 DEF StoreEncryptedWallet
  <2>4. ks # None
    BY <2>1, NothingIsNoKey
  <2> HIDE DEF p, ks, key
  <2>5. CASE page.shown
    BY <2>1, <2>2, <2>3, <2>4, <2>5 DEF Render, PageSessionInv, KeystoreStays, SessionMatchesStorage
  <2>6. CASE ~ page.shown
    BY <2>3, <2>6 DEF Render, PageSessionInv, KeystoreStays, SessionMatchesStorage
  <2> QED BY <2>5, <2>6
<1>5. CASE PageUnlocked(s)
  <2> DEFINE key == decryptWallet(working[s].keystore, working[s].pass)
             p == [page EXCEPT !.wallet = key]
  <2>1. working[s].kind = "unlock" /\ key = working[s].keystore.holds
    BY <1>1, <1>5, TaskTypes, DecryptWallet DEF PageUnlocked
  <2>2. p.keystore = page.keystore /\ p.legacyWallet = page.legacyWallet /\ p.wallet = key
        /\ p.shown = page.shown
    BY <1>1 DEF Pages
  <2>3. Render(p, {}) /\ End(s, refresh(key)) /\ UNCHANGED stored
        /\ pageOvertaken' = (pageOvertaken \/ Overtakes(s))
    BY <1>5 DEF PageUnlocked
  <2>4. \A x \in PageSlots : working'[x] = working[x] \/ working'[x].kind \notin {"unlock", "change"}
    BY <1>2, <2>3, EndedTasks
  <2> HIDE DEF p, key
  <2>5. CASE page.shown
    <3>1. page' = p /\ page.keystore # None
      BY <2>1, <2>3, <2>5 DEF Render, PageSessionInv, KeystoreStays
    <3>2. KeystoreStays'
      BY <2>2, <2>4, <2>5, <3>1 DEF PageSessionInv, KeystoreStays
    <3>3. ~ pageOvertaken' => page.keystore = working[s].keystore
      BY <2>3, <2>5 DEF Overtakes
    <3> QED BY <2>1, <2>2, <2>3, <2>5, <3>1, <3>2, <3>3 DEF PageSessionInv, SessionMatchesStorage
  <2>6. CASE ~ page.shown
    BY <2>3, <2>6 DEF Render, PageSessionInv, KeystoreStays, SessionMatchesStorage
  <2> QED BY <2>5, <2>6
<1>6. CASE PassphraseChanged(s)
  <2> DEFINE key == decryptWallet(working[s].keystore, working[s].pass)
             ks == encryptWallet(key, working[s].next)
             p == [page EXCEPT !.keystore = ks]
  <2>1. working[s].kind = "change" /\ key = working[s].keystore.holds /\ key \in Wallets
    BY <1>1, <1>6, TaskTypes, DecryptWallet DEF PassphraseChanged
  <2>2. ks \in WalletKeystores /\ ks.holds = key
    BY <1>1, <2>1, TaskTypes, EncryptWallet
  <2>3. p.keystore = ks /\ p.legacyWallet = page.legacyWallet /\ p.wallet = page.wallet
        /\ p.shown = page.shown
    BY <1>1 DEF Pages
  <2>4. Render(p, {}) /\ End(s, NoWork) /\ stored' = StoredKeystore(ks)
        /\ pageOvertaken' = (pageOvertaken \/ Overtakes(s))
    BY <1>6 DEF PassphraseChanged
  <2>5. \A x \in PageSlots : working'[x] = working[x] \/ working'[x].kind \notin {"unlock", "change"}
    BY <1>2, <2>4, EndedTasks
  <2>6. ks # None
    BY <2>2, NothingIsNoKey
  <2> HIDE DEF p, ks, key
  <2>7. CASE page.shown
    <3>1. page' = p /\ page.keystore # None /\ page.legacyWallet = None
      BY <2>1, <2>4, <2>7 DEF Render, PageSessionInv, KeystoreStays
    <3>2. KeystoreStays'
      BY <2>3, <2>6, <3>1 DEF PageSessionInv, KeystoreStays
    <3>3. ~ pageOvertaken' => page.keystore = working[s].keystore /\ ~ pageOvertaken
      BY <2>4, <2>7 DEF Overtakes
    <3>4. page.wallet # None /\ ~ pageOvertaken' => ks.holds = page.wallet
      BY <2>1, <2>2, <2>7, <3>3 DEF PageSessionInv, SessionMatchesStorage
    <3> QED BY <2>3, <2>4, <2>6, <3>1, <3>2, <3>4 DEF PageSessionInv, SessionMatchesStorage
  <2>8. CASE ~ page.shown
    BY <2>4, <2>8 DEF Render, PageSessionInv, KeystoreStays, SessionMatchesStorage
  <2> QED BY <2>7, <2>8
<1>7. CASE FeeEstimated(s)
  <2>1. \A x \in PageSlots : working'[x] = working[x] \/ working'[x].kind \notin {"unlock", "change"}
    BY <1>7, EndedTasks DEF FeeEstimated
  <2> QED BY <1>7, <2>1, QuietSession DEF FeeEstimated
<1>8. CASE Sent(s)
  <2>1. PICK produced \in BOOLEAN :
          Render(IF produced THEN [page EXCEPT !.preview = None] ELSE page, {})
    BY <1>8 DEF Sent
  <2>2. page'.shown = page.shown /\ page'.wallet = page.wallet /\ page'.keystore = page.keystore
        /\ page'.legacyWallet = page.legacyWallet
    BY <1>1, <2>1 DEF Render, Pages
  <2>3. \A x \in PageSlots : working'[x] = working[x] \/ working'[x].kind \notin {"unlock", "change"}
    BY <1>2, <1>8, EndedTasks DEF Sent
  <2> QED BY <1>8, <2>2, <2>3, QuietSession DEF Sent
<1>9. CASE Previewed(s)
  <2>1. page'.shown = page.shown /\ page'.wallet = page.wallet /\ page'.keystore = page.keystore
        /\ page'.legacyWallet = page.legacyWallet
    BY <1>1, <1>9 DEF Previewed, Render, Pages
  <2>2. \A x \in PageSlots : working'[x] = working[x] \/ working'[x].kind \notin {"unlock", "change"}
    BY <1>2, <1>9, EndedTasks DEF Previewed
  <2> QED BY <1>9, <2>1, <2>2, QuietSession DEF Previewed
<1>10. CASE FaucetAnswered(s)
  <2>1. \A x \in PageSlots : working'[x] = working[x] \/ working'[x].kind \notin {"unlock", "change"}
    BY <1>2, <1>10, EndedTasks DEF FaucetAnswered
  <2> QED BY <1>10, <2>1, QuietSession DEF FaucetAnswered
<1>11. CASE Refreshed(s)
  <2>1. page'.shown = page.shown /\ page'.wallet = page.wallet /\ page'.keystore = page.keystore
        /\ page'.legacyWallet = page.legacyWallet
    BY <1>1, <1>11 DEF Refreshed, Render, Pages
  <2>2. \A x \in PageSlots : working'[x] = working[x] \/ working'[x].kind \notin {"unlock", "change"}
    BY <1>2, <1>11, EndedTasks DEF Refreshed
  <2> QED BY <1>11, <2>1, <2>2, QuietSession DEF Refreshed
<1> QED BY <1>3, <1>4, <1>5, <1>6, <1>7, <1>8, <1>9, <1>10, <1>11 DEF Finish

LEMMA NextSession == PageTypeOK /\ PageSessionInv /\ [PageNext]_pageVars => PageSessionInv'
<1> SUFFICES ASSUME PageTypeOK, PageSessionInv, [PageNext]_pageVars PROVE PageSessionInv'
  OBVIOUS
<1>1. page \in Pages
  BY DEF PageTypeOK
<1>2. CASE CreateSecureWallet
  <2>1. PICK key \in Wallets, pass \in Passphrases : BeginWork([kind |-> "store", key |-> key, pass |-> pass])
    BY <1>2 DEF CreateSecureWallet
  <2>2. [kind |-> "store", key |-> key, pass |-> pass] \in Work
    BY DEF Work
  <2> QED BY <2>1, <2>2, PageBeginSession
<1>3. CASE SecureLegacyWallet
  <2>1. PICK pass \in Passphrases : BeginWork([kind |-> "store", key |-> page.legacyWallet, pass |-> pass])
    BY <1>3 DEF SecureLegacyWallet
  <2>2. [kind |-> "store", key |-> page.legacyWallet, pass |-> pass] \in Work
    BY <1>1, <1>3 DEF SecureLegacyWallet, Work, Pages
  <2> QED BY <2>1, <2>2, PageBeginSession
<1>4. CASE PageUnlockWallet
  <2>1. PICK pass \in Passphrases : BeginWork([kind |-> "unlock", keystore |-> page.keystore, pass |-> pass])
    BY <1>4 DEF PageUnlockWallet
  <2>2. [kind |-> "unlock", keystore |-> page.keystore, pass |-> pass] \in Work
    BY <1>1, <1>4 DEF PageUnlockWallet, Work, Pages
  <2> QED BY <1>4, <2>1, <2>2, PageBeginSession DEF PageUnlockWallet
<1>5. CASE ChangePassphrase
  <2>1. PICK pass \in Passphrases, next \in Passphrases :
          BeginWork([kind |-> "change", keystore |-> page.keystore, pass |-> pass, next |-> next])
    BY <1>5 DEF ChangePassphrase
  <2>2. [kind |-> "change", keystore |-> page.keystore, pass |-> pass, next |-> next] \in Work
    BY <1>1, <1>5 DEF ChangePassphrase, Work, Pages
  <2> QED BY <1>5, <2>1, <2>2, PageBeginSession DEF ChangePassphrase
<1>6. CASE PageImportKeystore
  <2>1. PICK file \in KeystoreFiles, s \in PageSlots :
          /\ stored' = StoredKeystore(file)
          /\ Render([page EXCEPT !.keystore = file, !.legacyWallet = None, !.wallet = None], {})
    BY <1>6 DEF PageImportKeystore
  <2>2. file # None
    BY WalletAppAssumption, NothingIsNoKey
  <2>3. page' = [page EXCEPT !.keystore = file, !.legacyWallet = None, !.wallet = None]
    BY <1>6, <2>1 DEF PageImportKeystore, Click, Render
  <2>4. page'.keystore = file /\ page'.legacyWallet = None /\ page'.wallet = None
    BY <1>1, <2>3 DEF Pages
  <2> QED BY <2>1, <2>2, <2>4 DEF PageSessionInv, KeystoreStays, SessionMatchesStorage
<1>7. CASE Transact
  <2>1. PICK kind \in {"estimate", "preview", "faucet"} : BeginWork([kind |-> kind, key |-> page.wallet])
    BY <1>7 DEF Transact
  <2>2. [kind |-> kind, key |-> page.wallet] \in Work
    BY <1>1, <1>7 DEF Transact, Work, Pages
  <2> QED BY <2>1, <2>2, PageBeginSession
<1>8. CASE EditForm
  <2>1. page'.shown = page.shown /\ page'.wallet = page.wallet /\ page'.keystore = page.keystore
        /\ page'.legacyWallet = page.legacyWallet
    BY <1>1, <1>8 DEF EditForm, Render, Pages
  <2> QED BY <1>8, <2>1, QuietSession DEF EditForm
<1>9. CASE LockButton
  <2>1. ~ page'.shown
    BY <1>1, <1>9 DEF LockButton, Pages
  <2> QED BY <2>1 DEF PageSessionInv, KeystoreStays, SessionMatchesStorage
<1>10. CASE Reload
  BY <1>10, LoadSession DEF Reload
<1>11. CASE AutoLock
  <2>1. page'.shown = page.shown /\ page'.wallet = None /\ page'.keystore = page.keystore
        /\ page'.legacyWallet = page.legacyWallet
    BY <1>1, <1>11 DEF AutoLock, Render, handleLockWallet, Pages
  <2> QED BY <1>11, <2>1, QuietSession DEF AutoLock
<1>12. CASE RefreshTick
  <2>1. \A s \in PageSlots : working'[s] = working[s] \/ working'[s].kind \notin {"unlock", "change"}
    BY <1>12 DEF RefreshTick, refresh, NoWork, PageTypeOK
  <2> QED BY <1>12, <2>1, QuietSession DEF RefreshTick
<1>13. CASE AnswerEstimate
  BY <1>13, QuietSession DEF AnswerEstimate
<1>14. CASE \E s \in PageSlots : Finish(s)
  BY <1>14, FinishSession
<1>15. CASE UNCHANGED pageVars
  BY <1>15 DEF PageSessionInv, KeystoreStays, SessionMatchesStorage, pageVars
<1> QED BY <1>2, <1>3, <1>4, <1>5, <1>6, <1>7, <1>8, <1>9, <1>10, <1>11, <1>12, <1>13, <1>14, <1>15
        DEF PageNext

\* Storage, keystore and unlocked wallet agree in every state, unless an
\* unlock or a change of passphrase ended under another keystore than it
\* began with (handleUnlockWallet, handleChangePassphrase,
\* handleImportKeystore, storeEncryptedWallet).
THEOREM WalletSessionMatchesStorage == PageSpec => []SessionMatchesStorage
<1>1. PageSessionInv => SessionMatchesStorage
  BY DEF PageSessionInv
<1> QED BY <1>1, PageInitTypes, NextTypes, InitSession, NextSession, PTL DEF PageSpec

-----------------------------------------------------------------------------
(* The estimates. *)

LEMMA InitEstimates == PageInit => EstimateInv
  BY DEF PageInit, EstimateInv, AskedIsCurrent, EstimateIsCurrent

\* The effects of a render cancel or repeat exactly the requests that the
\* render made stale.
LEMMA EstimateKeeps ==
  ASSUME PageTypeOK, EstimateInv, NEW p \in Pages, NEW again, Estimate(p, again), page' = p
  PROVE  EstimateInv'
<1> DEFINE rerun == {panel \in Panels :
                  \/ panel \in again
                  \/ Estimable(panel, p) # Estimable(panel, page)
                  \/ p.wallet # page.wallet
                  \/ p.form # page.form}
           question(panel) == [panel |-> panel, sender |-> p.wallet, form |-> p.form]
<1>1. estimates' = [panel \in Panels |->
                      IF panel \in rerun /\ ~ Estimable(panel, p) THEN None ELSE estimates[panel]]
  BY DEF Estimate
<1>2. asked' = {q \in asked : q.panel \notin rerun} \cup
           {question(panel) : panel \in {x \in rerun : Estimable(x, p)}}
  BY DEF Estimate
<1>3. \A panel \in Panels \ rerun : p.wallet = page.wallet /\ p.form = page.form
  OBVIOUS
<1>4. rerun \subseteq Panels
  OBVIOUS
<1> HIDE DEF rerun
<1>5. AskedIsCurrent'
  <2> SUFFICES ASSUME NEW q \in asked' PROVE q = [panel |-> q.panel, sender |-> p.wallet, form |-> p.form]
    BY DEF AskedIsCurrent
  <2>1. CASE q \in asked /\ q.panel \notin rerun
    <3>1. q.panel \in Panels
      BY <2>1 DEF PageTypeOK, Questions
    <3> QED BY <1>3, <2>1, <3>1 DEF EstimateInv, AskedIsCurrent
  <2>2. CASE \E panel \in rerun : q = question(panel)
    BY <2>2
  <2> QED BY <1>2, <2>1, <2>2
<1>6. EstimateIsCurrent'
  <2> SUFFICES ASSUME NEW panel \in Panels, estimates'[panel] # None
               PROVE  estimates'[panel] = question(panel) \/ question(panel) \in asked'
    BY DEF EstimateIsCurrent
  <2>1. CASE panel \in rerun
    <3>1. Estimable(panel, p)
      BY <1>1, <2>1
    <3> QED BY <1>2, <2>1, <3>1
  <2>2. CASE panel \notin rerun
    <3>1. question(panel) = [panel |-> panel, sender |-> page.wallet, form |-> page.form]
      BY <1>3, <2>2
    <3>2. estimates'[panel] = estimates[panel]
      BY <1>1, <2>2
    <3>3. estimates[panel] = question(panel) \/ question(panel) \in asked
      BY <3>1, <3>2 DEF EstimateInv, EstimateIsCurrent
    <3>4. question(panel).panel = panel
      OBVIOUS
    <3> HIDE DEF question
    <3> QED BY <1>2, <2>2, <3>2, <3>3, <3>4
  <2> QED BY <2>1, <2>2
<1> QED BY <1>5, <1>6 DEF EstimateInv

LEMMA ShowKeeps ==
  ASSUME PageTypeOK, EstimateInv, NEW p \in Pages, NEW again, Render(p, again)
  PROVE  EstimateInv'
<1>1. CASE page.shown
  BY <1>1, EstimateKeeps DEF Render
<1>2. CASE ~ page.shown
  BY <1>2 DEF Render, EstimateInv, AskedIsCurrent, EstimateIsCurrent
<1> QED BY <1>1, <1>2

LEMMA UnaskedEstimates ==
  ASSUME estimates' = [panel \in Panels |-> None], asked' = {}
  PROVE  EstimateInv'
  BY DEF EstimateInv, AskedIsCurrent, EstimateIsCurrent

LEMMA AnsweredEstimates ==
  ASSUME PageTypeOK, EstimateInv, AnswerEstimate
  PROVE  EstimateInv'
<1> DEFINE question(panel) == [panel |-> panel, sender |-> page.wallet, form |-> page.form]
<1>1. PICK q \in asked :
        /\ asked' = asked \ {q}
        /\ estimates' \in {[estimates EXCEPT ![q.panel] = q], [estimates EXCEPT ![q.panel] = None]}
        /\ UNCHANGED page
  BY DEF AnswerEstimate
<1>2. AskedIsCurrent'
  BY <1>1 DEF EstimateInv, AskedIsCurrent
<1>3. q = question(q.panel)
  BY DEF EstimateInv, AskedIsCurrent
<1>4. EstimateIsCurrent'
  <2> SUFFICES ASSUME NEW panel \in Panels, estimates'[panel] # None
               PROVE  estimates'[panel] = question(panel) \/ question(panel) \in asked'
    BY <1>1 DEF EstimateIsCurrent
  <2>1. CASE panel = q.panel
    BY <1>1, <1>3, <2>1 DEF PageTypeOK
  <2>2. CASE panel # q.panel
    <3>1. estimates'[panel] = estimates[panel]
      BY <1>1, <2>2 DEF PageTypeOK
    <3>2. question(panel) # q
      BY <2>2
    <3>3. estimates[panel] = question(panel) \/ question(panel) \in asked
      BY <3>1 DEF EstimateInv, EstimateIsCurrent
    <3> QED BY <1>1, <3>1, <3>2, <3>3
  <2> QED BY <2>1, <2>2
<1> QED BY <1>2, <1>4 DEF EstimateInv

\* A step that touches neither page nor estimates.
LEMMA SamePage ==
  ASSUME EstimateInv, UNCHANGED <<page, estimates, asked>>
  PROVE  EstimateInv'
  BY DEF EstimateInv, AskedIsCurrent, EstimateIsCurrent

LEMMA FinishEstimates ==
  ASSUME PageTypeOK, EstimateInv, NEW s \in PageSlots, Finish(s)
  PROVE  EstimateInv'
<1>1. page \in Pages /\ working[s] \in Work \cup {NoWork}
  BY DEF PageTypeOK
<1>2. CASE WorkFails(s) \/ FeeEstimated(s) \/ FaucetAnswered(s)
  BY <1>2, SamePage DEF WorkFails, FeeEstimated, FaucetAnswered
<1>3. CASE StoreEncryptedWallet(s)
  <2> DEFINE key == working[s].key
             ks == encryptWallet(key, working[s].pass)
  <2>1. key \in Wallets /\ ks \in WalletKeystores
    BY <1>1, <1>3, TaskTypes, EncryptWallet DEF StoreEncryptedWallet
  <2>2. [page EXCEPT !.keystore = ks, !.legacyWallet = None, !.wallet = key] \in Pages
    BY <1>1, <2>1 DEF Pages
  <2> QED BY <1>3, <2>2, ShowKeeps DEF StoreEncryptedWallet
<1>4. CASE PageUnlocked(s)
  <2>1. decryptWallet(working[s].keystore, working[s].pass) \in Wallets
    BY <1>1, <1>4, TaskTypes, DecryptWallet DEF PageUnlocked
  <2>2. [page EXCEPT !.wallet = decryptWallet(working[s].keystore, working[s].pass)] \in Pages
    BY <1>1, <2>1 DEF Pages
  <2> QED BY <1>4, <2>2, ShowKeeps DEF PageUnlocked
<1>5. CASE PassphraseChanged(s)
  <2> DEFINE key == decryptWallet(working[s].keystore, working[s].pass)
             ks == encryptWallet(key, working[s].next)
  <2>1. key \in Wallets /\ working[s].next \in Passphrases
    BY <1>1, <1>5, TaskTypes, DecryptWallet DEF PassphraseChanged
  <2>2. ks \in WalletKeystores
    BY <2>1, EncryptWallet
  <2>3. [page EXCEPT !.keystore = ks] \in Pages
    BY <1>1, <2>2 DEF Pages
  <2> QED BY <1>5, <2>3, ShowKeeps DEF PassphraseChanged
<1>6. CASE Sent(s)
  <2>1. PICK p \in Pages : Render(p, {})
    BY <1>1, <1>6 DEF Sent, Pages
  <2> QED BY <2>1, ShowKeeps
<1>7. CASE Previewed(s)
  <2>1. [page EXCEPT !.preview = working[s].key] \in Pages
    BY <1>1, <1>7, TaskTypes DEF Previewed, Pages
  <2> QED BY <1>7, <2>1, ShowKeeps DEF Previewed
<1>8. CASE Refreshed(s)
  <2>1. [page EXCEPT !.account = working[s].key] \in Pages
    BY <1>1, <1>8, TaskTypes DEF Refreshed, Pages
  <2> QED BY <1>8, <2>1, ShowKeeps DEF Refreshed
<1> QED BY <1>2, <1>3, <1>4, <1>5, <1>6, <1>7, <1>8 DEF Finish

LEMMA NextEstimates == PageTypeOK /\ EstimateInv /\ [PageNext]_pageVars => EstimateInv'
<1> SUFFICES ASSUME PageTypeOK, EstimateInv, [PageNext]_pageVars PROVE EstimateInv'
  OBVIOUS
<1>1. page \in Pages
  BY DEF PageTypeOK
<1>2. CASE CreateSecureWallet \/ SecureLegacyWallet \/ PageUnlockWallet \/ ChangePassphrase \/ Transact
  BY <1>2, SamePage DEF CreateSecureWallet, SecureLegacyWallet, PageUnlockWallet, ChangePassphrase,
     Transact, BeginWork
<1>3. CASE PageImportKeystore
  <2>1. PICK file \in KeystoreFiles :
          Render([page EXCEPT !.keystore = file, !.legacyWallet = None, !.wallet = None], {})
    BY <1>3 DEF PageImportKeystore
  <2>2. [page EXCEPT !.keystore = file, !.legacyWallet = None, !.wallet = None] \in Pages
    BY <1>1, WalletAppAssumption DEF Pages
  <2> QED BY <2>1, <2>2, ShowKeeps
<1>4. CASE EditForm
  <2>1. PICK form \in Forms : Render([page EXCEPT !.form = form], {})
    BY <1>4 DEF EditForm
  <2>2. [page EXCEPT !.form = form] \in Pages
    BY <1>1 DEF Pages
  <2> QED BY <2>1, <2>2, ShowKeeps
<1>5. CASE LockButton
  BY <1>5, UnaskedEstimates DEF LockButton
<1>6. CASE Reload
  BY <1>6, UnaskedEstimates DEF Reload, Load
<1>7. CASE AutoLock
  <2>1. handleLockWallet(page) \in Pages
    BY <1>1 DEF handleLockWallet, Pages
  <2> QED BY <1>7, <2>1, ShowKeeps DEF AutoLock
<1>8. CASE RefreshTick
  BY <1>8, SamePage DEF RefreshTick
<1>9. CASE AnswerEstimate
  BY <1>9, AnsweredEstimates
<1>10. CASE \E s \in PageSlots : Finish(s)
  BY <1>10, FinishEstimates
<1>11. CASE UNCHANGED pageVars
  BY <1>11, SamePage DEF pageVars
<1> QED BY <1>2, <1>3, <1>4, <1>5, <1>6, <1>7, <1>8, <1>9, <1>10, <1>11 DEF PageNext

\* An estimate on the page is about the wallet and the form as they are, or a
\* newer one is on its way (refreshDeploymentEstimate,
\* refreshActionEstimate).
THEOREM WalletEstimateIsCurrent == PageSpec => []EstimateIsCurrent
<1>1. EstimateInv => EstimateIsCurrent
  BY DEF EstimateInv
<1> QED BY <1>1, PageInitTypes, NextTypes, InitEstimates, NextEstimates, PTL DEF PageSpec
=============================================================================
