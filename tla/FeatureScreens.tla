--------------------------- MODULE FeatureScreens ---------------------------
(***************************************************************************)
(* The console's settings screens: Trivy, gitleaks, signing, and the       *)
(* update channel.                                                         *)
(*                                                                         *)
(*   internal/tui/screen_trivy_config.go     trivyConfigScreen             *)
(*   internal/tui/screen_gitleaks_config.go  gitleaksConfigScreen          *)
(*   internal/tui/screen_signing_config.go   signingConfigScreen           *)
(*   internal/tui/screen_update_channel.go   updateChannelScreen           *)
(*                                                                         *)
(* A screen shows copies of what the server keeps, edits them in modals,   *)
(* saves without waiting, and is told by answers that may be late, out of  *)
(* order, lost, or the news that the session has expired.  The screens     *)
(* share nothing: a behaviour is one of one of them, and settings says     *)
(* which.  Nobody else writes the settings.                                *)
(*                                                                         *)
(* What a feature keeps is in three parts, each a value of which only 0,   *)
(* Go's zero value, is told apart: whether it is enabled, its              *)
(* configuration, and its policy.  Signing is enabled in its policy.  What *)
(* does not parse is not sent, and the lists of keys and identities, which *)
(* take the keys while they are edited, are in OverrideEditor.             *)
(***************************************************************************)
EXTENDS Naturals, FiniteSets

CONSTANTS
    Void,         \* no screen, page, modal, prompt
    MaxMessages   \* bound on calls the operator makes

VARIABLES
    settings,    \* which screen: "trivy", "gitleaks", "signing", "channel"
    kept,        \* the server's settings
    mounted,     \* the feature's screen, Void when it is not
    channel,     \* updateChannelScreen, never unmounted
    lapsed,      \* the session has expired: the login form has the keys
    messages,    \* calls in flight
    typed,       \* calls made by a key
    (* What happened, for the properties only. *)
    expiredOnce, \* an answer said that the session had expired
    crossed      \* a write passed an answer, or the screen was not told of one

screenVars == <<settings, kept, mounted, channel, lapsed, messages, typed,
                expiredOnce, crossed>>

Value == 0..1
Part == {"enabled", "config", "policy"}

\* What the page shows, what the policy holds, and what each modal edits.
PageParts == {"enabled", "config"}
PolicyParts == IF settings = "signing" THEN {"enabled", "policy"} ELSE {"policy"}
ConfigParts == IF settings = "gitleaks" THEN {"enabled", "config"} ELSE {"config"}
Copy(f, S) == [p \in S |-> f[p]]

\* The policy starts as the zero value, which is not told apart from a loaded one.
NewScreen ==
    [page |-> Void, policy |-> [p \in PolicyParts |-> 0], cfg |-> Void,
     policyModal |-> Void, confirm |-> Void, submitting |-> FALSE]
newUpdateChannelScreen == [loaded |-> FALSE, current |-> 0, selected |-> 0, saving |-> FALSE]

\* n only tells the calls in flight apart.
Unused(S) == CHOOSE n \in 1..Cardinality(S) + 1 : \A c \in S : c.n # n
Message(n, kind, sheet) == [n |-> n, kind |-> kind, sheet |-> sheet, result |-> "none"]

\* The operator has just come to the screen, whose Init has asked for the page.
ScreensInit ==
    /\ settings \in {"trivy", "gitleaks", "signing", "channel"}
    /\ kept \in [Part -> Value]
    /\ settings = "signing" => ~(kept["enabled"] = 1 /\ kept["policy"] = 0)
    /\ mounted = IF settings = "channel" THEN Void ELSE NewScreen
    /\ channel = newUpdateChannelScreen
    /\ messages = {Message(1, IF settings = "channel" THEN "channel" ELSE "page", Void)}
    /\ typed = 1 /\ lapsed = FALSE /\ expiredOnce = FALSE /\ crossed = FALSE

-----------------------------------------------------------------------------
(***************************************************************************)
(* The server and the way back.                                            *)
(***************************************************************************)
Reads == {"page", "policy", "channel"}
Writes == {"configure", "setPolicy", "action", "setChannel"}

\* Enabling signatures without a trusted key is refused.
Acceptable(f) == settings = "signing" => ~(f["enabled"] = 1 /\ f["policy"] = 0)
Merge(f, sheet) == [p \in Part |-> IF p \in DOMAIN sheet THEN sheet[p] ELSE f[p]]

\* Answers on their way that tell the screen what the server keeps.
Telling == {c \in messages : c.result = "ok" /\ c.kind \in Reads \union {"setPolicy", "setChannel"}}

SettingsServed(c, result) ==
    /\ c.result = "none"
    /\ LET written == IF c.kind \in Writes THEN Merge(kept, c.sheet) ELSE kept
           applied == c.kind \in Writes /\ result \in {"ok", "lost"}
           told == IF c.kind = "page" THEN Copy(kept, PageParts)
                   ELSE IF c.kind = "policy" THEN Copy(kept, PolicyParts)
                   ELSE IF c.kind = "channel" THEN Copy(kept, {"config"})
                   ELSE c.sheet
       IN  /\ result = "lost" => c.kind \in Writes
           /\ applied => Acceptable(written)
           /\ kept' = IF applied THEN written ELSE kept
           /\ messages' = (messages \ {c}) \union {[c EXCEPT !.sheet = told, !.result = result]}
           /\ crossed' = (crossed \/ (applied /\ Telling # {})
                                  \/ result = "lost" \/ (c.kind \in Reads /\ result # "ok"))
    /\ UNCHANGED <<settings, mounted, channel, lapsed, typed, expiredOnce>>

-----------------------------------------------------------------------------
(***************************************************************************)
(* Keys of a feature's screen.                                             *)
(***************************************************************************)
FeatureKey ==
    /\ ~lapsed /\ mounted # Void
    /\ UNCHANGED <<settings, kept, channel, lapsed, expiredOnce, crossed>>
Asked(kind, sheet) ==
    /\ typed < MaxMessages /\ typed' = typed + 1
    /\ messages' = messages \union {Message(Unused(messages), kind, sheet)}
Becomes(s) == mounted' = s /\ UNCHANGED <<messages, typed>>
Idle == mounted.confirm = Void /\ mounted.cfg = Void /\ mounted.policyModal = Void

\* Enter or r.
RefreshPage == FeatureKey /\ Idle /\ Asked("page", Void) /\ UNCHANGED mounted

\* c or s: refused until a page has been loaded.
ConfigModalFromPage ==
    /\ FeatureKey /\ Idle /\ settings \in {"trivy", "gitleaks"} /\ mounted.page # Void
    /\ Becomes([mounted EXCEPT !.cfg = Copy(mounted.page, ConfigParts)])

\* p: the copy of the policy, loaded or not.
PolicyModal ==
    /\ FeatureKey /\ Idle /\ settings \in {"trivy", "signing"}
    /\ Becomes([mounted EXCEPT !.policyModal = mounted.policy])

\* Typing in a modal.
EditConfig(p, v) ==
    /\ FeatureKey /\ mounted.confirm = Void /\ mounted.cfg # Void
    /\ p \in ConfigParts /\ mounted.cfg[p] # v
    /\ Becomes([mounted EXCEPT !.cfg[p] = v])
EditPolicy(p, v) ==
    /\ FeatureKey /\ mounted.confirm = Void /\ mounted.cfg = Void /\ mounted.policyModal # Void
    /\ p \in PolicyParts /\ mounted.policyModal[p] # v
    /\ Becomes([mounted EXCEPT !.policyModal[p] = v])

\* Enter in a modal: it stays open, and Enter may be pressed again.
SaveConfig ==
    /\ FeatureKey /\ mounted.confirm = Void /\ mounted.cfg # Void
    /\ Asked("configure", mounted.cfg) /\ UNCHANGED mounted
SavePolicy ==
    /\ FeatureKey /\ mounted.confirm = Void /\ mounted.cfg = Void /\ mounted.policyModal # Void
    /\ \/ Asked("setPolicy", mounted.policyModal)
       \/ settings = "signing" /\ Asked("setPolicy", [mounted.policyModal EXCEPT !["policy"] = 0])
    /\ UNCHANGED mounted

\* Esc in a modal.
CloseModal ==
    /\ FeatureKey /\ mounted.confirm = Void /\ ~(mounted.cfg = Void /\ mounted.policyModal = Void)
    /\ Becomes(IF mounted.cfg # Void THEN [mounted EXCEPT !.cfg = Void]
                                  ELSE [mounted EXCEPT !.policyModal = Void])

\* e or x, whichever the page offers, asks first; a runtime action does not.
dispatchAction ==
    /\ FeatureKey /\ Idle /\ mounted.page # Void
    /\ \/ Becomes([mounted EXCEPT !.confirm = [enabled |-> 1 - mounted.page["enabled"]]])
       \/ settings # "signing" /\ Asked("action", [p \in {} |-> 0]) /\ UNCHANGED mounted

\* Enter on the prompt, which stays open until the answer; Esc closes it.
ConfirmAction ==
    /\ FeatureKey /\ mounted.confirm # Void
    /\ \/ Asked("action", mounted.confirm) /\ mounted' = [mounted EXCEPT !.submitting = TRUE]
       \/ Becomes([mounted EXCEPT !.confirm = Void, !.submitting = FALSE])

-----------------------------------------------------------------------------
(***************************************************************************)
(* Answers.  Follow is the call a handler makes in turn.                   *)
(***************************************************************************)
Take(c) ==
    /\ c \in messages /\ c.result # "none"
    /\ UNCHANGED <<settings, kept, lapsed, typed, expiredOnce>>
Drop(c) == messages' = messages \ {c}
Follow(c, kind) ==
    messages' = (messages \ {c}) \union {Message(Unused(messages \ {c}), kind, Void)}
Told(c, s) == Take(c) /\ mounted # Void /\ mounted' = s /\ UNCHANGED <<channel, crossed>>

FeaturePageLoaded(c) ==
    /\ c.kind = "page" /\ c.result = "ok" /\ Told(c, [mounted EXCEPT !.page = c.sheet])
    /\ IF settings = "gitleaks" THEN Drop(c) ELSE Follow(c, "policy")

PolicyLoaded(c) ==
    /\ c.kind = "policy" /\ c.result = "ok"
    /\ Told(c, [mounted EXCEPT !.policy = c.sheet]) /\ Drop(c)

\* Signing's modal stays open and takes the answer; the scan policy's closes.
\* Neither is asked whether it is the one that was saved.
PolicyUpdated_KeepsCopy(c) ==  \* mutant: the screen's own copy is left as it was
    /\ c.kind = "setPolicy" /\ c.result = "ok"
    /\ Told(c, [mounted EXCEPT !.policyModal =
                   IF settings = "signing" /\ @ # Void THEN c.sheet ELSE Void])
    /\ Drop(c)
PolicyUpdated(c) ==
    /\ c.kind = "setPolicy" /\ c.result = "ok"
    /\ Told(c, [mounted EXCEPT !.policy = c.sheet, !.policyModal =
                   IF settings = "signing" /\ @ # Void THEN c.sheet ELSE Void])
    /\ Drop(c)

FeatureConfigured(c) ==
    /\ c.kind = "configure" /\ c.result = "ok"
    /\ Told(c, [mounted EXCEPT !.cfg = Void]) /\ Follow(c, "page")

\* Clears whatever prompt is open.
FeatureActionCompleted_KeepsStatus(c) ==  \* mutant: the status line is left as it was
    /\ c.kind = "action" /\ c.result \in {"ok", "failed", "lost"}
    /\ Told(c, [mounted EXCEPT !.confirm = Void])
    /\ IF c.result = "ok" THEN Follow(c, "page") ELSE Drop(c)
FeatureActionCompleted(c) ==
    /\ c.kind = "action" /\ c.result \in {"ok", "failed", "lost"}
    /\ Told(c, [mounted EXCEPT !.confirm = Void, !.submitting = FALSE])
    /\ IF c.result = "ok" THEN Follow(c, "page") ELSE Drop(c)

\* Other failures only show an error, and an answer to a screen that is gone
\* is nobody's.
Unheard(c) ==
    /\ Take(c) /\ Drop(c) /\ UNCHANGED <<mounted, channel, crossed>>
    /\ c.kind \notin {"channel", "setChannel"}
    /\ \/ mounted = Void /\ c.result # "expired"
       \/ c.kind # "action" /\ c.result \in {"failed", "lost"}

\* expireAdminSession leaves the screens mounted and keeps the answer from them.
SessionExpired(c) ==
    /\ c \in messages /\ c.result = "expired" /\ Drop(c)
    /\ lapsed' = TRUE /\ expiredOnce' = TRUE
    /\ UNCHANGED <<settings, kept, mounted, channel, typed, crossed>>

SignInAgain ==
    /\ lapsed /\ lapsed' = FALSE
    /\ UNCHANGED <<settings, kept, mounted, channel, messages, typed, expiredOnce, crossed>>

\* A list of users that selects another one unmounts the features' screens.
UnmountScreens ==
    /\ ~lapsed /\ mounted # Void /\ mounted' = Void
    /\ UNCHANGED <<settings, kept, channel, lapsed, messages, typed, expiredOnce, crossed>>

\* navigateMsg mounts a screen that is not there.  What is still on its way to
\* the former one will reach it.
MountScreen ==
    /\ ~lapsed /\ settings # "channel" /\ mounted = Void /\ mounted' = NewScreen
    /\ Asked("page", Void) /\ crossed' = (crossed \/ \E c \in messages : c.kind \notin Reads)
    /\ UNCHANGED <<settings, kept, channel, lapsed, expiredOnce>>

-----------------------------------------------------------------------------
(***************************************************************************)
(* The update channel.                                                     *)
(***************************************************************************)
ChannelKey ==
    /\ ~lapsed /\ settings = "channel"
    /\ UNCHANGED <<settings, kept, mounted, lapsed, expiredOnce, crossed>>

otherUpdateChannel ==
    /\ ChannelKey /\ channel.loaded /\ ~channel.saving
    /\ channel' = [channel EXCEPT !.selected = 1 - @] /\ UNCHANGED <<messages, typed>>

SaveChannel_Twice ==  \* mutant: a save under way does not hold back the next
    /\ ChannelKey /\ channel.loaded /\ channel.selected # channel.current
    /\ channel' = [channel EXCEPT !.saving = TRUE]
    /\ Asked("setChannel", [config |-> channel.selected])
SaveChannel ==
    /\ ChannelKey /\ channel.loaded /\ ~channel.saving /\ channel.selected # channel.current
    /\ channel' = [channel EXCEPT !.saving = TRUE]
    /\ Asked("setChannel", [config |-> channel.selected])

RefreshChannel == ChannelKey /\ ~channel.saving /\ Asked("channel", Void) /\ UNCHANGED channel

\* A failed load shows its error and leaves the rest.
UpdateChannelLoaded(c) ==
    /\ Take(c) /\ Drop(c) /\ c.kind = "channel" /\ c.result \in {"ok", "failed"}
    /\ channel' = IF c.result = "failed" THEN channel
                  ELSE [channel EXCEPT !.loaded = TRUE, !.current = c.sheet["config"],
                                       !.selected = c.sheet["config"]]
    /\ UNCHANGED <<mounted, crossed>>

UpdateChannelUpdated(c) ==
    /\ Take(c) /\ Drop(c) /\ c.kind = "setChannel" /\ c.result \in {"ok", "failed", "lost"}
    /\ channel' = IF c.result # "ok" THEN [channel EXCEPT !.saving = FALSE]
                  ELSE [channel EXCEPT !.saving = FALSE, !.current = c.sheet["config"],
                                       !.selected = c.sheet["config"]]
    /\ UNCHANGED <<mounted, crossed>>

-----------------------------------------------------------------------------
ScreensNext ==
    \/ \E c \in messages, result \in {"ok", "failed", "lost", "expired"} : SettingsServed(c, result)
    \/ RefreshPage \/ ConfigModalFromPage \/ PolicyModal
    \/ \E p \in Part, v \in Value : EditConfig(p, v) \/ EditPolicy(p, v)
    \/ SaveConfig \/ SavePolicy \/ CloseModal \/ dispatchAction \/ ConfirmAction
    \/ \E c \in messages :
          \/ FeaturePageLoaded(c) \/ PolicyLoaded(c) \/ PolicyUpdated(c) \/ FeatureConfigured(c)
          \/ FeatureActionCompleted(c) \/ Unheard(c) \/ SessionExpired(c)
          \/ UpdateChannelLoaded(c) \/ UpdateChannelUpdated(c)
    \/ SignInAgain \/ UnmountScreens \/ MountScreen
    \/ otherUpdateChannel \/ SaveChannel \/ RefreshChannel

ScreensSpec == ScreensInit /\ [][ScreensNext]_screenVars

-----------------------------------------------------------------------------
(***************************************************************************)
(* Properties.                                                             *)
(***************************************************************************)

\* When nothing is on its way, what a screen shows is what the server keeps:
\* a save that was heard of is on the screen, and so is an action.  The
\* exceptions are a write that passed an answer on its way to the screen, one
\* whose answer was lost, and a load that failed.  The page of signing is left
\* out: saving the policy does not load it again.
ShownIsKept ==
    (messages = {} /\ ~crossed /\ ~expiredOnce) =>
        /\ mounted # Void /\ mounted.page # Void =>
              /\ settings # "signing" => mounted.page = Copy(kept, PageParts)
              /\ settings # "gitleaks" => mounted.policy = Copy(kept, PolicyParts)
        /\ channel.loaded => channel.current = kept["config"]

\* The screen says that an action is being submitted, over a prompt that is
\* still open, only while one is, unless the session expired under it.
SubmittingIsUnderWay ==
    (mounted # Void /\ mounted.submitting /\ ~expiredOnce) => \E c \in messages : c.kind = "action"

\* At most one save of the channel is under way, and while it is the screen
\* says so, whatever loads are answered meanwhile and whatever is typed.
ChannelSavedOnce ==
    LET saves == {c \in messages : c.kind = "setChannel"}
    IN  /\ Cardinality(saves) <= 1
        /\ saves # {} => channel.saving
        /\ channel.saving /\ ~expiredOnce => saves # {}
=============================================================================
