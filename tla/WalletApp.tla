----------------------------- MODULE WalletApp -----------------------------
(***************************************************************************)
(* The browser wallet: one page over the browser's storage and a node.     *)
(*                                                                         *)
(* A handler of the page reads the state of the render it was clicked in,  *)
(* waits for the browser's cryptography or for the node, and writes the    *)
(* state of whatever render is current by then.  The page stays usable     *)
(* meanwhile: other handlers, the timers and the effects run in between.   *)
(*                                                                         *)
(* A wallet is known by its address.  A keystore names an address and      *)
(* holds a wallet under a passphrase; a file a user imports may hold a     *)
(* wallet other than the one it names, or name none: isWalletKeystore asks *)
(* for no address.                                                         *)
(***************************************************************************)
EXTENDS Naturals, FiniteSets

CONSTANTS
  Wallets,
  Passphrases,    \* those that satisfy assertPassphrase
  Forms,          \* contents of the contract forms
  KeystoreFiles,  \* keystores a user may import
  PageSlots,      \* bound: handlers and refreshes under way at once
  MaxClicks,      \* bound: what the user does
  None

WalletKeystores == [address : Wallets \cup {None}, holds : Wallets, pass : Passphrases]

ASSUME WalletAppAssumption ==
  /\ KeystoreFiles \subseteq WalletKeystores
  /\ None \notin Wallets \cup WalletKeystores \cup Forms
  /\ IsFiniteSet(PageSlots) /\ PageSlots # {}
  /\ MaxClicks \in Nat

VARIABLES
  stored,         \* what localStorage holds under STORAGE_KEY
  page,           \* the state of the component, as of its last render
  estimates,      \* panel -> the cost estimate it shows
  asked,          \* the estimate requests that were not cancelled
  working,        \* slot -> a handler that awaits something, or a refresh
  created,        \* wallets created so far, or held by somebody's keystore
  pageOvertaken,  \* an unlock or a change of passphrase ended under another
                  \*   keystore than it began with
  clicks          \* what the user did so far

pageVars == <<stored, page, estimates, asked, working, created, pageOvertaken, clicks>>

\* The contents of storage: a keystore, a wallet in the clear, JSON that is
\* neither, or text that is no JSON.
Contents ==
  [kind : {"keystore"}, keystore : WalletKeystores] \cup [kind : {"legacy"}, key : Wallets]
    \cup [kind : {"none", "invalid", "unreadable"}]

Pages ==
  [shown : BOOLEAN, wallet : Wallets \cup {None}, keystore : WalletKeystores \cup {None},
   legacyWallet : Wallets \cup {None}, account : Wallets \cup {None},
   preview : Wallets \cup {None}, form : Forms]

\* The panels that ask the node what their form would cost.
Panels == {"deploy", "action"}
Questions == [panel : Panels, sender : Wallets, form : Forms]

\* What is under way: the encryption of a new or a legacy wallet, a
\* decryption, a re-encryption, a transaction, a simulation, a request to the
\* faucet, or the round of queries of refresh.
Work ==
  [kind : {"store"}, key : Wallets, pass : Passphrases]
    \cup [kind : {"unlock"}, keystore : WalletKeystores, pass : Passphrases]
    \cup [kind : {"change"}, keystore : WalletKeystores, pass : Passphrases, next : Passphrases]
    \cup [kind : {"estimate", "send", "preview", "faucet", "refresh"}, key : Wallets]

NoWork == [kind |-> "none"]
StoredKeystore(ks) == [kind |-> "keystore", keystore |-> ks]

\* The wallet the page is about, locked or not.
activeAddress(p) ==
  IF p.wallet # None THEN p.wallet
  ELSE IF p.legacyWallet # None THEN p.legacyWallet
  ELSE IF p.keystore # None THEN p.keystore.address
  ELSE None

-----------------------------------------------------------------------------
(* The page's state and the effects that follow a change of it.            *)

\* The contract of the action panel is chosen by the first refresh.
Estimable(panel, p) == p.wallet # None /\ (panel = "action" => p.account # None)

\* Mutant of Estimate: the answers of cancelled requests are shown.
EstimateUncancelled(p, again) ==
  /\ estimates' = [panel \in Panels |-> IF Estimable(panel, p) THEN estimates[panel] ELSE None]
  /\ asked' = asked \cup
       {[panel |-> panel, sender |-> p.wallet, form |-> p.form] :
          panel \in {x \in Panels : Estimable(x, p) /\ (x \in again \/ p # page)}}

\* The effects of the two panels: when one of their dependencies changes, the
\* request under way is cancelled, and a new one is sent or the estimate
\* cleared.  "again": the panels whose dependencies are new objects.
Estimate(p, again) ==
  LET rerun == {panel \in Panels :
                  \/ panel \in again
                  \/ Estimable(panel, p) # Estimable(panel, page)
                  \/ p.wallet # page.wallet
                  \/ p.form # page.form}
  IN  /\ estimates' = [panel \in Panels |->
                         IF panel \in rerun /\ ~ Estimable(panel, p) THEN None ELSE estimates[panel]]
      /\ asked' = {q \in asked : q.panel \notin rerun} \cup
           {[panel |-> panel, sender |-> p.wallet, form |-> p.form] :
              panel \in {x \in rerun : Estimable(x, p)}}

\* The setters of a handler, and the effects of the render they cause.  Those
\* of a page that is gone do nothing.
Render(p, again) ==
  IF page.shown THEN page' = p /\ Estimate(p, again)
  ELSE UNCHANGED <<page, estimates, asked>>

\* A page just loaded: bootstrapWallet, before its first refresh.
bootstrapWallet(contents, form) ==
  [shown |-> TRUE, wallet |-> None, account |-> None, preview |-> None, form |-> form,
   keystore |-> IF contents.kind = "keystore" THEN contents.keystore ELSE None,
   legacyWallet |-> IF contents.kind = "legacy" THEN contents.key ELSE None]

\* refresh(activeWallet) in the slot of the handler that awaits it.
refresh(key) == IF key = None THEN NoWork ELSE [kind |-> "refresh", key |-> key]

Load(form, slot) ==
  LET p == bootstrapWallet(stored, form)
  IN  /\ page' = p
      /\ stored' = IF stored.kind = "invalid" THEN [kind |-> "none"] ELSE stored
      /\ estimates' = [panel \in Panels |-> None]
      /\ asked' = {}
      /\ working' = [s \in PageSlots |-> IF s = slot THEN refresh(activeAddress(p)) ELSE NoWork]
      /\ pageOvertaken' = FALSE

-----------------------------------------------------------------------------
(* What the user does.                                                     *)

Click == page.shown /\ clicks < MaxClicks /\ clicks' = clicks + 1

\* A handler runs up to its first await, in a slot of its own.
BeginWork(task) ==
  /\ Click
  /\ \E s \in PageSlots : working[s] = NoWork /\ working' = [working EXCEPT ![s] = task]
  /\ UNCHANGED <<stored, page, estimates, asked, pageOvertaken>>

\* handleCreateSecureWallet, and handleResetWallet of an unlocked wallet.
CreateSecureWallet ==
  \E key \in Wallets \ created, pass \in Passphrases :
    /\ page.wallet # None \/ (page.keystore = None /\ page.legacyWallet = None)
    /\ BeginWork([kind |-> "store", key |-> key, pass |-> pass])
    /\ created' = created \cup {key}

SecureLegacyWallet ==
  /\ page.legacyWallet # None
  /\ \E pass \in Passphrases :
       BeginWork([kind |-> "store", key |-> page.legacyWallet, pass |-> pass])
  /\ UNCHANGED created

PageUnlockWallet ==
  /\ page.keystore # None /\ page.wallet = None
  /\ \E pass \in Passphrases :
       BeginWork([kind |-> "unlock", keystore |-> page.keystore, pass |-> pass])
  /\ UNCHANGED created

ChangePassphrase ==
  /\ page.keystore # None /\ page.wallet # None
  /\ \E pass, next \in Passphrases :
       BeginWork([kind |-> "change", keystore |-> page.keystore, pass |-> pass, next |-> next])
  /\ UNCHANGED created

\* Mutant of ImportKeystore: the wallet that was unlocked stays so.
ImportKeystoreUnlocked ==
  /\ Click
  /\ page.legacyWallet = None
  /\ \E file \in KeystoreFiles :
       /\ Render([page EXCEPT !.keystore = file, !.legacyWallet = None], {})
       /\ stored' = StoredKeystore(file)
  /\ UNCHANGED <<working, created, pageOvertaken>>

\* A file is stored and shown at once, whatever else is under way.
PageImportKeystore ==
  /\ Click
  /\ page.legacyWallet = None
  /\ \E file \in KeystoreFiles, s \in PageSlots :
       /\ working[s] = NoWork
       /\ stored' = StoredKeystore(file)
       /\ Render([page EXCEPT !.keystore = file, !.legacyWallet = None, !.wallet = None], {})
       /\ working' = [working EXCEPT ![s] = refresh(file.address)]
  /\ pageOvertaken' = FALSE
  /\ UNCHANGED created

\* submitAndRefresh, handlePreviewPayment and handleFaucet.
Transact ==
  /\ page.wallet # None
  /\ \E kind \in {"estimate", "preview", "faucet"} : BeginWork([kind |-> kind, key |-> page.wallet])
  /\ UNCHANGED created

EditForm ==
  /\ Click
  /\ \E form \in Forms : Render([page EXCEPT !.form = form], {})
  /\ UNCHANGED <<stored, working, created, pageOvertaken>>

\* The buttons pass their event to handleLockWallet, which shows it as the
\* status: React cannot render it, and takes the page down.
LockButton ==
  /\ Click
  /\ page.wallet # None
  /\ page' = [page EXCEPT !.shown = FALSE, !.wallet = None, !.keystore = None,
                          !.legacyWallet = None, !.account = None, !.preview = None]
  /\ estimates' = [panel \in Panels |-> None]
  /\ asked' = {}
  /\ UNCHANGED <<stored, working, created, pageOvertaken>>

\* The user loads the page again, for the first time or the next.
Reload ==
  /\ clicks < MaxClicks /\ clicks' = clicks + 1
  /\ \E slot \in PageSlots : Load(page.form, slot)
  /\ UNCHANGED created

-----------------------------------------------------------------------------
(* What the page does by itself.                                           *)

handleLockWallet(p) == [p EXCEPT !.wallet = None, !.preview = None]

\* The session times out; how long it was idle is left out.
AutoLock ==
  /\ page.shown /\ page.wallet # None
  /\ Render(handleLockWallet(page), {})
  /\ UNCHANGED <<stored, working, created, pageOvertaken, clicks>>

\* Mutant of RefreshTick: an interval that is never set up again.
RefreshTickAtLoad ==
  /\ page.shown
  /\ LET key == IF page.legacyWallet # None THEN page.legacyWallet
                ELSE IF page.keystore = None THEN None ELSE page.keystore.address
     IN  \E s \in PageSlots :
           /\ working[s] = NoWork /\ key # None
           /\ working' = [working EXCEPT ![s] = refresh(key)]
  /\ UNCHANGED <<stored, page, estimates, asked, created, pageOvertaken, clicks>>

\* The interval of ten seconds, set up anew for each wallet shown.
RefreshTick ==
  /\ page.shown
  /\ \E s \in PageSlots :
       /\ working[s] = NoWork /\ activeAddress(page) # None
       /\ working' = [working EXCEPT ![s] = refresh(activeAddress(page))]
  /\ UNCHANGED <<stored, page, estimates, asked, created, pageOvertaken, clicks>>

\* The node answers an estimate request, or fails to.
AnswerEstimate ==
  \E q \in asked :
    /\ asked' = asked \ {q}
    /\ \E answer \in {q, None} : estimates' = [estimates EXCEPT ![q.panel] = answer]
    /\ UNCHANGED <<stored, page, working, created, pageOvertaken, clicks>>

-----------------------------------------------------------------------------
(* The ends of what is under way.                                          *)

decryptWallet(ks, pass) == IF pass = ks.pass /\ ks.holds = ks.address THEN ks.holds ELSE None
encryptWallet(key, pass) == [address |-> key, holds |-> key, pass |-> pass]

End(s, next) == working' = [working EXCEPT ![s] = next] /\ UNCHANGED <<created, clicks>>

\* A handler whose await fails shows a message and ends; so does a refresh.
WorkFails(s) ==
  /\ working[s].kind \in {"unlock", "change", "preview", "faucet", "refresh", "send"}
  /\ working[s].kind = "unlock" => decryptWallet(working[s].keystore, working[s].pass) = None
  /\ working[s].kind = "change" => decryptWallet(working[s].keystore, working[s].pass) = None
  /\ End(s, NoWork)
  /\ UNCHANGED <<stored, page, estimates, asked, pageOvertaken>>

\* storeEncryptedWallet, once the wallet is encrypted.
StoreEncryptedWallet(s) ==
  /\ working[s].kind = "store"
  /\ LET ks == encryptWallet(working[s].key, working[s].pass)
     IN  /\ stored' = StoredKeystore(ks)
         /\ Render([page EXCEPT !.keystore = ks, !.legacyWallet = None,
                                !.wallet = working[s].key], {})
  /\ pageOvertaken' = FALSE
  /\ End(s, refresh(working[s].key))

\* The keystore that a handler captured is no longer the page's.
Overtakes(s) == page.shown /\ page.keystore # working[s].keystore

PageUnlocked(s) ==
  /\ working[s].kind = "unlock"
  /\ LET key == decryptWallet(working[s].keystore, working[s].pass)
     IN  /\ key # None
         /\ Render([page EXCEPT !.wallet = key], {})
         /\ End(s, refresh(key))
  /\ pageOvertaken' = (pageOvertaken \/ Overtakes(s))
  /\ UNCHANGED stored

\* changeWalletPassphrase replaces the keystore and leaves the wallet alone.
PassphraseChanged(s) ==
  /\ working[s].kind = "change"
  /\ LET key == decryptWallet(working[s].keystore, working[s].pass)
         ks == encryptWallet(key, working[s].next)
     IN  /\ key # None
         /\ stored' = StoredKeystore(ks)
         /\ Render([page EXCEPT !.keystore = ks], {})
  /\ pageOvertaken' = (pageOvertaken \/ Overtakes(s))
  /\ End(s, NoWork)

\* withEstimatedFee: a fee, or the default one if the node gives none.
FeeEstimated(s) ==
  /\ working[s].kind = "estimate"
  /\ End(s, [kind |-> "send", key |-> working[s].key])
  /\ UNCHANGED <<stored, page, estimates, asked, pageOvertaken>>

\* The transaction is accepted and a block produced, or another proposer is
\* to produce it; then the wallet of the click is refreshed.
Sent(s) ==
  /\ working[s].kind = "send"
  /\ \E produced \in BOOLEAN : Render(IF produced THEN [page EXCEPT !.preview = None] ELSE page, {})
  /\ End(s, refresh(working[s].key))
  /\ UNCHANGED <<stored, pageOvertaken>>

Previewed(s) ==
  /\ working[s].kind = "preview"
  /\ Render([page EXCEPT !.preview = working[s].key], {})
  /\ End(s, NoWork)
  /\ UNCHANGED <<stored, pageOvertaken>>

FaucetAnswered(s) ==
  /\ working[s].kind = "faucet"
  /\ End(s, refresh(working[s].key))
  /\ UNCHANGED <<stored, page, estimates, asked, pageOvertaken>>

\* The answers of one round are shown together, whatever is shown by then;
\* the contracts are new objects, so the action panel asks again.
Refreshed(s) ==
  /\ working[s].kind = "refresh"
  /\ Render([page EXCEPT !.account = working[s].key], {"action"})
  /\ End(s, NoWork)
  /\ UNCHANGED <<stored, pageOvertaken>>

-----------------------------------------------------------------------------
\* The wallets that some keystore holds already.
Taken(contents) ==
  {file.holds : file \in KeystoreFiles} \cup ({file.address : file \in KeystoreFiles} \ {None})
    \cup (IF contents.kind = "keystore" THEN {contents.keystore.holds} ELSE {})
    \cup (IF contents.kind = "legacy" THEN {contents.key} ELSE {})

\* The page as it loads, over what an earlier visit left in storage.
PageInit ==
  \E contents \in Contents, form \in Forms, slot \in PageSlots :
    LET p == bootstrapWallet(contents, form)
    IN  /\ contents.kind = "keystore" =>
             contents.keystore.holds = contents.keystore.address \/ contents.keystore \in KeystoreFiles
        /\ page = p
        /\ stored = IF contents.kind = "invalid" THEN [kind |-> "none"] ELSE contents
        /\ estimates = [panel \in Panels |-> None]
        /\ asked = {}
        /\ working = [s \in PageSlots |-> IF s = slot THEN refresh(activeAddress(p)) ELSE NoWork]
        /\ created = Taken(contents)
        /\ pageOvertaken = FALSE
        /\ clicks = 0

Finish(s) ==
  \/ WorkFails(s)
  \/ StoreEncryptedWallet(s)
  \/ PageUnlocked(s)
  \/ PassphraseChanged(s)
  \/ FeeEstimated(s)
  \/ Sent(s)
  \/ Previewed(s)
  \/ FaucetAnswered(s)
  \/ Refreshed(s)

PageNext ==
  \/ CreateSecureWallet
  \/ SecureLegacyWallet
  \/ PageUnlockWallet
  \/ ChangePassphrase
  \/ PageImportKeystore
  \/ Transact
  \/ EditForm
  \/ LockButton
  \/ Reload
  \/ AutoLock
  \/ RefreshTick
  \/ AnswerEstimate
  \/ \E s \in PageSlots : Finish(s)

\* Every await ends, the interval fires, and a node that is asked again and
\* again answers some time.
Fairness ==
  /\ WF_pageVars(RefreshTick)
  /\ WF_pageVars(AnswerEstimate)
  /\ \A s \in PageSlots : WF_pageVars(Finish(s)) /\ SF_pageVars(Refreshed(s))

PageSpec == PageInit /\ [][PageNext]_pageVars /\ Fairness

-----------------------------------------------------------------------------
PageTypeOK ==
  /\ stored \in Contents
  /\ page \in Pages
  /\ estimates \in [Panels -> Questions \cup {None}]
  /\ asked \subseteq Questions
  /\ working \in [PageSlots -> Work \cup {NoWork}]
  /\ created \subseteq Wallets
  /\ pageOvertaken \in BOOLEAN
  /\ clicks \in 0 .. MaxClicks

\* What the page shows is what storage would show after a reload, and the
\* wallet unlocked is the one of the keystore shown (storeEncryptedWallet,
\* handleImportKeystore, handleUnlockWallet, handleChangePassphrase): only a
\* handler that ends under another keystore than it began with breaks that.
SessionMatchesStorage ==
  page.shown =>
    /\ page.keystore # None => stored = StoredKeystore(page.keystore)
    /\ page.legacyWallet # None => stored = [kind |-> "legacy", key |-> page.legacyWallet]
    /\ page.wallet # None /\ ~ pageOvertaken =>
         page.keystore # None /\ page.keystore.holds = page.wallet

\* An estimate is about the wallet unlocked and the form as it is, or a newer
\* one is on its way (refreshDeploymentEstimate and refreshActionEstimate):
\* no answer to an earlier question is left on the page.
EstimateIsCurrent ==
  \A panel \in Panels :
    estimates[panel] # None =>
      \/ estimates[panel] = [panel |-> panel, sender |-> page.wallet, form |-> page.form]
      \/ [panel |-> panel, sender |-> page.wallet, form |-> page.form] \in asked

\* The account shown comes to be that of the wallet the page is about, and
\* stays so (the interval of refresh), in whatever order the answers for
\* earlier wallets arrive.  The exception is a locked keystore that names no
\* address: refresh returns at once, and the account of the wallet before
\* stays on the page.
AccountCatchesUp ==
  <>[](page.shown =>
         \/ page.account = activeAddress(page)
         \/ page.wallet = None /\ page.keystore # None /\ page.keystore.address = None)
=============================================================================
