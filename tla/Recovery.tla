------------------------------ MODULE Recovery ------------------------------
(* How the workbench recovers: the boot's readiness probe (App.vue), the     *)
(* tree's ladder of automatic retries (components/DnTree.vue), and the watch *)
(* on the transport to the host (lib/useTransportWatch.ts).  Of the tree only*)
(* the loads of its root matter here; delays are left to the scheduler.      *)
EXTENDS Naturals, FiniteSets

CONSTANTS
  Links,         \* connections
  BootRetryMax,  \* BOOT_RESTORE_RETRY_MAX
  AutoRetryMax,  \* TREE_AUTO_RETRY_MAX
  MaxEvents      \* bound: failures, outages, switches and the user's steps

VARIABLES
  link,                \* connectionId
  boot,                \* [at, attempt, waiting]: waitForConnectionReady
  watch,               \* [probe, subject, recovery]: useTransportWatch
  transportUnavailable,
  reconnect,           \* [at, load]: onTreeRetryConnection, treeReconnecting
  rootLoads,           \* the root loads under way; the latest one counts
  rootLoad,
  treeError,           \* "none", "transient" or "final"
  ladder,              \* [retry, timer, attempt, raw]: autoRetry and its timer
  recoveryEvents,
  abandoned,           \* history: an outage was dropped, not recovered from
  givenUp,             \* history: no retry is owed
  fired                \* history: automatic retries in a row

recoveryVars == <<link, boot, watch, transportUnavailable, reconnect, rootLoads, rootLoad, treeError, ladder,
                  recoveryEvents, abandoned, givenUp, fired>>

NoLink == "none"
ASSUME RetryAssumption == AutoRetryMax \in Nat /\ NoLink \notin Links
Fresh == [retry |-> 0, timer |-> FALSE, attempt |-> 0, raw |-> "none"]

Happens == recoveryEvents < MaxEvents /\ recoveryEvents' = recoveryEvents + 1
Quiet == UNCHANGED recoveryEvents

treeRetryGuarded == boot.at # "ready" \/ transportUnavailable \/ reconnect.at # "idle"
watching == ~boot.waiting

\* ---- the ladder: armAutoRetry, pauseAutoRetry, resumeAutoRetry.
decideTreeAutoRetry(l, raw) == raw = "transient" /\ l.attempt < AutoRetryMax
Climb(l, raw) ==
  IF decideTreeAutoRetry(l, raw)
  THEN [retry |-> l.attempt + 1, timer |-> TRUE, attempt |-> l.attempt + 1, raw |-> "none"] ELSE Fresh
\* Mutant: a failure under the guard is forgotten.
armUnlessGuarded(l, raw) == IF l.retry # 0 \/ treeRetryGuarded THEN l ELSE Climb(l, raw)
armAutoRetry(l, raw) ==
  IF l.retry # 0 THEN l ELSE IF treeRetryGuarded THEN [l EXCEPT !.raw = raw] ELSE Climb(l, raw)
pauseAutoRetry(l) == [l EXCEPT !.timer = FALSE]
resumeAutoRetry(l) ==
  IF l.retry # 0 THEN [l EXCEPT !.timer = TRUE]
  ELSE IF l.raw # "none" THEN Climb([l EXCEPT !.raw = "none"], l.raw) ELSE l
\* The watcher of the guard runs behind every change of it.
LadderIs(l) ==
  ladder' = IF treeRetryGuarded' = treeRetryGuarded THEN l
            ELSE IF treeRetryGuarded' THEN pauseAutoRetry(l) ELSE resumeAutoRetry(l)

\* LoadRoot; a tree that is not mounted loads nothing.
LoadRoot ==
  /\ treeError' = "none" /\ rootLoad' = rootLoad + 1
  /\ rootLoads' = IF boot'.waiting THEN rootLoads ELSE rootLoads \cup {rootLoad + 1}
\* refresh, clearFilter and every other step of the user: the ladder starts anew.
Reload == LoadRoot /\ LadderIs(Fresh) /\ givenUp' = FALSE /\ fired' = 0

RecoveryInit ==
  /\ link \in Links
  /\ boot = [at |-> "whoami", attempt |-> 0, waiting |-> FALSE]
  /\ watch = [probe |-> NoLink, subject |-> NoLink, recovery |-> "idle"]
  /\ transportUnavailable = FALSE /\ reconnect = [at |-> "idle", load |-> 0]
  /\ rootLoads = {1} /\ rootLoad = 1 /\ treeError = "none" /\ ladder = Fresh
  /\ recoveryEvents = 0 /\ abandoned = FALSE /\ givenUp = FALSE /\ fired = 0

\* ---- boot: while it waits the tree is not mounted, and afterwards it loads.
TreeStays == UNCHANGED <<rootLoads, rootLoad, treeError, givenUp, fired>>
BootReady ==
  /\ boot.at = "whoami" /\ Quiet
  /\ boot' = [boot EXCEPT !.at = "ready", !.waiting = FALSE]
  /\ UNCHANGED <<link, watch, transportUnavailable, reconnect, abandoned>>
  /\ Reload
BootNotConnected ==
  /\ boot.at = "whoami" /\ boot.attempt < BootRetryMax /\ Happens
  /\ boot' = [boot EXCEPT !.at = IF boot.attempt = 0 THEN "reopen" ELSE "wait"]
  /\ UNCHANGED <<link, watch, transportUnavailable, reconnect, abandoned, ladder>> /\ TreeStays
BootReopened ==
  /\ boot.at = "reopen" /\ Quiet
  /\ boot' = [boot EXCEPT !.at = "wait", !.waiting = TRUE]
  /\ rootLoad' = rootLoad + 1 /\ treeError' = "none" /\ ladder' = Fresh /\ fired' = 0
  /\ UNCHANGED <<link, watch, transportUnavailable, reconnect, rootLoads, abandoned, givenUp>>
BootRetries ==
  /\ boot.at = "wait" /\ Quiet
  /\ boot' = [boot EXCEPT !.at = "whoami", !.attempt = @ + 1]
  /\ UNCHANGED <<link, watch, transportUnavailable, reconnect, abandoned, ladder>> /\ TreeStays

\* ---- the root's loads; a reconnect ends with the load that it started.
Settled(g) ==
  /\ rootLoads' = rootLoads \ {g}
  /\ reconnect' = IF reconnect = [at |-> "reload", load |-> g] THEN [at |-> "idle", load |-> 0] ELSE reconnect
  /\ UNCHANGED <<link, boot, watch, transportUnavailable, rootLoad, abandoned>>
RootLoaded(g) ==
  /\ Settled(g) /\ Quiet /\ UNCHANGED <<treeError, givenUp>>
  /\ fired' = IF g = rootLoad THEN 0 ELSE fired
  /\ LadderIs(IF g = rootLoad THEN Fresh ELSE ladder)
RootFails(g, raw) ==
  /\ Settled(g) /\ Happens /\ UNCHANGED fired
  /\ treeError' = IF g = rootLoad THEN raw ELSE treeError
  /\ LadderIs(IF g = rootLoad THEN armAutoRetry(ladder, raw) ELSE ladder)
  /\ givenUp' = IF g = rootLoad THEN ladder.attempt = AutoRetryMax /\ ladder.retry = 0 ELSE givenUp

Reconnect == reconnect' = [at |-> "reopen", load |-> 0]
AutoRetry ==
  /\ ladder.timer /\ Quiet
  /\ Reconnect /\ fired' = fired + 1
  /\ UNCHANGED <<link, boot, watch, transportUnavailable, rootLoads, rootLoad, treeError, abandoned, givenUp>>
  /\ LadderIs([ladder EXCEPT !.retry = 0, !.timer = FALSE])
onManualRetry ==
  /\ treeError # "none" /\ reconnect.at = "idle" /\ ~boot.waiting /\ Happens
  /\ Reconnect /\ fired' = 0 /\ givenUp' = FALSE
  /\ UNCHANGED <<link, boot, watch, transportUnavailable, rootLoads, rootLoad, treeError, abandoned>>
  /\ LadderIs(Fresh)
\* The host's answer, or its time limit: retryReload keeps the ladder.
Reopened ==
  /\ reconnect.at = "reopen" /\ Quiet
  /\ UNCHANGED <<link, boot, watch, transportUnavailable, abandoned, givenUp, fired>>
  /\ IF boot.waiting THEN reconnect' = [at |-> "idle", load |-> 0] /\ UNCHANGED <<rootLoads, rootLoad, treeError>>
     ELSE reconnect' = [at |-> "reload", load |-> rootLoad + 1] /\ LoadRoot
  /\ LadderIs(ladder)

RefreshTree ==
  /\ ~boot.waiting /\ Happens
  /\ UNCHANGED <<link, boot, watch, transportUnavailable, reconnect, abandoned>>
  /\ Reload
\* A keystroke in the tree's filter, an expansion: the ladder is reset and nothing loaded.
UserActs ==
  /\ ~boot.waiting /\ Happens
  /\ ladder' = Fresh /\ givenUp' = TRUE /\ fired' = 0
  /\ UNCHANGED <<link, boot, watch, transportUnavailable, reconnect, rootLoads, rootLoad, treeError, abandoned>>
SwitchLink(k) ==
  /\ k # link /\ Happens
  /\ link' = k
  /\ UNCHANGED <<boot, watch, transportUnavailable, reconnect, abandoned>>
  /\ Reload

\* ---- the watch on the transport.
WatchOnly == UNCHANGED <<link, boot, reconnect>>
reportUnavailable ==
  IF watching /\ watch.subject # link
  THEN watch'.subject = link /\ transportUnavailable' = TRUE
  ELSE watch'.subject = watch.subject /\ UNCHANGED transportUnavailable
WatchIs(probe, recovery) ==
  \E s \in Links \cup {NoLink} : watch' = [probe |-> probe, subject |-> s, recovery |-> recovery]
Probe ==
  /\ watch.subject = NoLink /\ watch.probe = NoLink /\ watching /\ Quiet
  /\ watch' = [watch EXCEPT !.probe = link]
  /\ WatchOnly /\ UNCHANGED <<transportUnavailable, ladder, abandoned>> /\ TreeStays
ProbeEnds ==
  /\ watch.probe # NoLink /\ Quiet
  /\ watch' = [watch EXCEPT !.probe = NoLink]
  /\ WatchOnly /\ UNCHANGED <<transportUnavailable, ladder, abandoned>> /\ TreeStays
ProbeFails ==
  /\ watch.probe # NoLink /\ Happens
  /\ WatchIs(NoLink, watch.recovery)
  /\ IF watch.probe = link THEN reportUnavailable
     ELSE watch'.subject = watch.subject /\ UNCHANGED transportUnavailable
  /\ WatchOnly /\ UNCHANGED abandoned /\ TreeStays
  /\ LadderIs(ladder)
onOffline ==
  /\ Happens
  /\ WatchIs(watch.probe, watch.recovery) /\ reportUnavailable
  /\ WatchOnly /\ UNCHANGED abandoned /\ TreeStays
  /\ LadderIs(ladder)
\* tryRecover: the next tick, or the browser is online again.  An outage of another
\* connection is dropped; onRecovered is not called.
tryRecover ==
  /\ watch.recovery = "idle" /\ watch.subject # NoLink /\ Quiet
  /\ watch' = IF watching /\ link = watch.subject THEN [watch EXCEPT !.recovery = "under way"]
              ELSE [watch EXCEPT !.subject = NoLink]
  /\ abandoned' = (abandoned \/ watch'.subject = NoLink)
  /\ WatchOnly /\ UNCHANGED <<transportUnavailable, ladder>> /\ TreeStays
RecoveryFails ==
  /\ watch.recovery = "under way" /\ Happens
  /\ watch' = [watch EXCEPT !.recovery = "idle"]
  /\ WatchOnly /\ UNCHANGED <<transportUnavailable, ladder, abandoned>> /\ TreeStays
\* The host reopened the connection: the tree is refreshed, the guard goes.
Recovered ==
  /\ watch.recovery = "under way" /\ Quiet
  /\ watch' = [watch EXCEPT !.subject = NoLink, !.recovery = "idle"]
  /\ transportUnavailable' = FALSE /\ abandoned' = FALSE
  /\ WatchOnly
  /\ Reload

RecoveryNext ==
  \/ BootReady \/ BootNotConnected \/ BootReopened \/ BootRetries
  \/ \E g \in rootLoads : RootLoaded(g) \/ \E raw \in {"transient", "final"} : RootFails(g, raw)
  \/ AutoRetry \/ onManualRetry \/ Reopened \/ RefreshTree \/ UserActs
  \/ \E k \in Links : SwitchLink(k)
  \/ Probe \/ ProbeEnds \/ ProbeFails \/ onOffline \/ tryRecover \/ RecoveryFails \/ Recovered

RecoverySpec == RecoveryInit /\ [][RecoveryNext]_recoveryVars

(* No retry is lost and none is too many.  A root that failed for a passing  *)
(* reason is counted down for, or remembered while something else recovers;  *)
(* countdowns run only unguarded, stand still only guarded, and come at most *)
(* AutoRetryMax in a row.  And the guard of an outage is the guard of an     *)
(* outage that is being watched, unless tryRecover dropped it because the    *)
(* connection was switched or the boot began to wait: nothing clears it then.*)
RetriesSurvive ==
  /\ treeError = "transient" /\ rootLoad \notin rootLoads /\ reconnect.at = "idle" /\ ~givenUp
       => ladder.retry # 0 \/ ladder.raw # "none"
  /\ ladder.retry # 0 => (ladder.timer <=> ~treeRetryGuarded)
  /\ ladder.raw # "none" => treeRetryGuarded
  /\ fired <= AutoRetryMax
  /\ transportUnavailable => watch.subject # NoLink \/ abandoned
=============================================================================
