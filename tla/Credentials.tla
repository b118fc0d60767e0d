----------------------------- MODULE Credentials -----------------------------
(***************************************************************************)
(* The encrypted OAuth credential of one connected account: the row of     *)
(* integration_credentials (a site's grant) or integration_user_credentials*)
(* (a member's), the vault that seals it (integration_credentials.py), the *)
(* Jira, Asana and Slack clients that read it and refresh it, and the flow *)
(* that connects an account.  Rows are independent of one another, so a    *)
(* behaviour follows one row; its provider and owner are drawn at Init.    *)
(*                                                                         *)
(* Each database statement is one step and each provider call another, so  *)
(* callers interleave between them and may die anywhere.  Two rows of the  *)
(* real world are history: live, the newest refresh token the provider     *)
(* issued per grant, and excused, the grants whose newest token was lost   *)
(* by a fault the protocol cannot mask.                                    *)
(***************************************************************************)
EXTENDS Integers, FiniteSets

CONSTANTS
  Callers,      \* threads that ask for an access token or rewrap
  Nobody,       \* no refresh claim
  MaxGrants,    \* bound on authorizations by a person
  MaxExpiries,  \* bound on access tokens that run out or are refused
  MaxFaults,    \* bound on lost answers, failed statements and crashes
  MaxRotations, \* bound on new primary keys
  MaxPolls      \* range(10) in _access_token

ASSUME CredentialsAssumption ==
  /\ Nobody \notin Callers
  /\ MaxGrants \in Nat \ {0} /\ MaxPolls \in Nat \ {0}
  /\ MaxExpiries \in Nat /\ MaxFaults \in Nat /\ MaxRotations \in Nat

Grants == 1 .. MaxGrants
Serials == 0 .. MaxExpiries + 1   \* 0: the grant has no refresh token
Keys == 0 .. MaxRotations
NoRow == [grant |-> 0, serial |-> 0, rev |-> 0, key |-> 0, fresh |-> FALSE,
          claim |-> Nobody, lapsed |-> FALSE]

VARIABLES
  provider,  \* "jira", "asana" or "slack"
  subject,   \* "site" or "user"
  enabled,   \* users.enabled of the member
  site,      \* the integrations row: "none", "off" or "on"
  linked,    \* the member's or connector's row in *_user_connections
  row,       \* the credential row, or NoRow
  primary,   \* keyring.primary_id of each replica; older keys stay in its ring
  live,      \* newest refresh token the provider issued, by grant
  proc,      \* callers
  link,      \* the person who connects an account
  refused,   \* grants whose account the server would not link
  excused,   \* grants whose newest token a fault lost
  used       \* budgets spent: expiries, faults, grants

fixed == <<provider, subject>>
world == <<live, excused, refused, used>>
vars == <<fixed, enabled, site, linked, row, primary, proc, link, world>>

Resting == [pc |-> "idle", goal |-> "token", retried |-> FALSE, tries |-> 0,
            polls |-> 0, base |-> 0, snap |-> NoRow, got |-> 0]
Disconnected == [pc |-> "idle", grant |-> 0, serial |-> 0, account |-> "own",
                 prev |-> NoRow, existing |-> "none"]

Row == [grant : 0 .. MaxGrants, serial : Serials, rev : Nat, key : Keys,
        fresh : BOOLEAN, claim : Callers \cup {Nobody}, lapsed : BOOLEAN]

TypeOK ==
  /\ provider \in {"jira", "asana", "slack"} /\ subject \in {"site", "user"}
  /\ enabled \in BOOLEAN /\ site \in {"none", "off", "on"} /\ linked \in BOOLEAN
  /\ row \in Row /\ primary \in [Callers -> Keys] /\ live \in [Grants -> Serials]
  /\ \A p \in Callers :
       /\ proc[p].pc \in {"idle", "open", "rotate", "claim", "post", "record",
                          "release", "use"}
       /\ proc[p].goal \in {"token", "poll", "rewrap"} /\ proc[p].snap \in Row
       /\ proc[p].tries \in 0 .. 3 /\ proc[p].polls \in 0 .. MaxPolls
       /\ proc[p].got \in Serials
  /\ link.pc \in {"idle", "pending", "site", "previous", "store", "link",
                  "rollback"}
  /\ link.prev \in Row
  /\ refused \subseteq Grants /\ excused \subseteq Grants

Exists == row # NoRow

-----------------------------------------------------------------------------
(***************************************************************************)
(* HTTP.  A call ends with an answer, with an error, or with a refused     *)
(* access token; acted counts how often the provider carried it out.       *)
(***************************************************************************)
Ends(attempts) ==
  [acted : 1 .. attempts, result : {"ok"}]
    \cup [acted : 0 .. attempts, result : {"error"}]
    \cup [acted : {0}, result : {"unauthorized"}]

JiraRequest(method) ==
  Ends(IF method \in {"GET", "HEAD", "PUT", "DELETE"} THEN 3 ELSE 1)
AsanaRequest(method) ==
  Ends(IF method \in {"GET", "HEAD", "PUT", "DELETE"} THEN 3 ELSE 1)
SlackRequest(method) == Ends(IF method \in {"GET", "HEAD"} THEN 3 ELSE 1)

Request(method) ==
  CASE provider = "jira" -> JiraRequest(method)
    [] provider = "asana" -> AsanaRequest(method)
    [] provider = "slack" -> SlackRequest(method)

\* Slack answers 200 with an error name; some of them mean "token refused".
SlackCheckedPayload(result) == {result} \cup (IF result = "ok" THEN {"error", "unauthorized"} ELSE {})

(***************************************************************************)
(* The refresh token an accepted token answer leaves: a new one, the one   *)
(* sent ("kept"), or none at all.                                          *)
(***************************************************************************)
JiraTokenValues(refreshing) == {"new"}
AsanaTokenValues(refreshing) == IF refreshing THEN {"new", "kept"} ELSE {"new"}
SlackTokenValues(refreshing) == IF refreshing THEN {"new", "kept"} ELSE {"new", "none"}

TokenValues(refreshing) ==
  CASE provider = "jira" -> JiraTokenValues(refreshing)
    [] provider = "asana" -> AsanaTokenValues(refreshing)
    [] provider = "slack" -> SlackTokenValues(refreshing)

-----------------------------------------------------------------------------
(***************************************************************************)
(* Statements on the row.  Site rows and member rows have statements of    *)
(* their own; a member's also look at users.enabled.                       *)
(***************************************************************************)
ClaimFreeUnleased == row.claim = Nobody
ClaimFree == row.claim = Nobody \/ row.lapsed
Sealed(g, s, r, k) == [grant |-> g, serial |-> s, rev |-> r, key |-> k,
                       fresh |-> TRUE, claim |-> Nobody, lapsed |-> FALSE]

store_integration_credentials ==
  subject = "site" /\ site # "none" /\ (Exists => ClaimFree)
store_user_integration_credentials ==
  subject = "user" /\ site # "none" /\ enabled /\ (Exists => ClaimFree)

RotateUnderClaim(s) == subject = "site" /\ Exists /\ row.rev = s.rev
rotate_integration_credentials(s) ==
  subject = "site" /\ Exists /\ row.rev = s.rev /\ row.claim = Nobody
rotate_user_integration_credentials(s) ==
  subject = "user" /\ Exists /\ row.rev = s.rev /\ row.claim = Nobody

ClaimAnyway == subject = "site" /\ Exists
claim_integration_credentials == subject = "site" /\ Exists /\ ClaimFree
claim_user_integration_credentials ==
  subject = "user" /\ Exists /\ enabled /\ ClaimFree

release_integration_credential_claim(p) ==
  subject = "site" /\ Exists /\ row.claim = p
release_user_integration_credential_claim(p) ==
  subject = "user" /\ Exists /\ row.claim = p

ReplaceUnguarded(p, s) == subject = "site" /\ Exists
replace_claimed_integration_credentials(p, s) ==
  subject = "site" /\ Exists /\ row.rev = s.rev /\ row.claim = p
replace_claimed_user_integration_credentials(p, s) ==
  subject = "user" /\ Exists /\ row.rev = s.rev /\ row.claim = p

expire_integration_access == subject = "site" /\ Exists
expire_user_integration_access == subject = "user" /\ Exists

\* IntegrationCredentialVault.store: seal under the primary key and upsert.
MayStore == store_integration_credentials \/ store_user_integration_credentials
VaultStore(g, s) == \E p \in Callers : row' = Sealed(g, s, row.rev + 1, primary[p])

MayRotate(s) == rotate_integration_credentials(s) \/ rotate_user_integration_credentials(s)
Rewrapped(s, k) == [row EXCEPT !.grant = s.grant, !.serial = s.serial,
                               !.key = k, !.rev = s.rev + 1]
-----------------------------------------------------------------------------
(***************************************************************************)
(* A caller.                                                               *)
(***************************************************************************)
Becomes(p, r) == proc' = [proc EXCEPT ![p] = r]
Fails(p) == Becomes(p, Resting)
Spend(what) == used' = [used EXCEPT ![what] = @ + 1]
FaultsLeft == used.faults < MaxFaults

\* user_access_token: a member's call needs a live connection first.
MayCall == site = "on" /\ (subject = "user" => linked /\ enabled)

\* Callers under the same key are alike: the first one free begins.
FreeCaller(p) ==
  /\ proc[p].pc = "idle"
  /\ p = CHOOSE q \in Callers : proc[q].pc = "idle" /\ primary[q] = primary[p]

AskForToken(p) ==
  /\ FreeCaller(p) /\ Exists /\ MayCall
  /\ Becomes(p, [Resting EXCEPT !.pc = "open"])
  /\ UNCHANGED <<fixed, enabled, site, linked, row, primary, link, world>>

integration_credentials_requiring_rewrap(p) == Exists /\ row.key # primary[p]

\* rewrap_all: open every row that is under another key.
RewrapAll(p) ==
  /\ FreeCaller(p) /\ integration_credentials_requiring_rewrap(p)
  /\ Becomes(p, [Resting EXCEPT !.pc = "open", !.goal = "rewrap"])
  /\ UNCHANGED <<fixed, enabled, site, linked, row, primary, link, world>>

(***************************************************************************)
(* What a caller does with the row it opened: use its token, claim the     *)
(* refresh, or, while another caller refreshes, open it again.             *)
(***************************************************************************)
PollAgain(c) ==
  IF c.polls + 1 = MaxPolls THEN Resting   \* refresh_busy
  ELSE [c EXCEPT !.pc = "open", !.tries = 0, !.polls = @ + 1, !.snap = NoRow]
Using(c) == [Resting EXCEPT !.pc = "use", !.retried = c.retried]

JiraAccessToken(c, r) ==
  IF c.goal = "token"
  THEN IF r.fresh THEN Using(c) ELSE [c EXCEPT !.pc = "claim", !.base = r.rev, !.snap = NoRow]
  ELSE IF r.rev > c.base /\ r.fresh THEN Using(c) ELSE PollAgain(c)

AsanaAccessToken(c, r) ==
  IF c.goal = "token"
  THEN IF r.fresh THEN Using(c) ELSE [c EXCEPT !.pc = "claim", !.base = r.rev, !.snap = NoRow]
  ELSE IF r.rev > c.base /\ r.fresh THEN Using(c) ELSE PollAgain(c)

\* Slack's poll does not look at the expiry.
SlackAccessToken(c, r) ==
  IF c.goal = "token"
  THEN IF r.fresh THEN Using(c) ELSE [c EXCEPT !.pc = "claim", !.base = r.rev, !.snap = NoRow]
  ELSE IF r.rev > c.base THEN Using(c) ELSE PollAgain(c)

AfterOpen(c, r) ==
  CASE c.goal = "rewrap" -> Resting
    [] c.goal # "rewrap" /\ provider = "jira" -> JiraAccessToken(c, r)
    [] c.goal # "rewrap" /\ provider = "asana" -> AsanaAccessToken(c, r)
    [] c.goal # "rewrap" /\ provider = "slack" -> SlackAccessToken(c, r)

\* _decrypt_row: the row is under a key this replica does not have yet.
Undecryptable(p) == row.key > primary[p]

\* IntegrationCredentialVault.open, first statement: read and decrypt.
OpenRead(p) ==
  /\ proc[p].pc = "open"
  /\ Becomes(p, CASE ~Exists \/ Undecryptable(p) -> Resting
                  [] Exists /\ row.key = primary[p] -> AfterOpen(proc[p], row)
                  [] Exists /\ row.key < primary[p] ->
                       [proc[p] EXCEPT !.pc = "rotate", !.snap = row])
  /\ UNCHANGED <<fixed, enabled, site, linked, row, primary, link, world>>

\* ... second statement: seal again under the primary key, if nothing moved.
OpenRotate(p) ==
  /\ proc[p].pc = "rotate"
  /\ IF MayRotate(proc[p].snap)
     THEN /\ row' = Rewrapped(proc[p].snap, primary[p])
          /\ Becomes(p, AfterOpen(proc[p], [proc[p].snap EXCEPT !.rev = @ + 1]))
     ELSE /\ UNCHANGED row
          /\ Becomes(p, IF proc[p].tries = 2 THEN Resting
                        ELSE [proc[p] EXCEPT !.pc = "open", !.tries = @ + 1, !.snap = NoRow])
  /\ UNCHANGED <<fixed, enabled, site, linked, primary, link, world>>

\* claim_for_refresh; a claim on a row it cannot decrypt is given back, and a
\* caller that loses the claim polls.
ClaimForRefresh(p) ==
  /\ proc[p].pc = "claim"
  /\ IF claim_integration_credentials \/ claim_user_integration_credentials
     THEN /\ row' = [row EXCEPT !.claim = p, !.lapsed = FALSE]
          /\ Becomes(p, IF Undecryptable(p) THEN [Resting EXCEPT !.pc = "release"]
                        ELSE [proc[p] EXCEPT !.pc = "post", !.snap = row', !.base = 0])
     ELSE /\ UNCHANGED row
          /\ Becomes(p, [proc[p] EXCEPT !.pc = "open", !.goal = "poll", !.tries = 0])
  /\ UNCHANGED <<fixed, enabled, site, linked, primary, link, world>>

(***************************************************************************)
(* _refresh: one POST with the refresh token, then the guarded write.  The *)
(* provider turns down a token it has replaced.                            *)
(***************************************************************************)
Answered(p, got) ==
  Becomes(p, IF got = 0 THEN [Resting EXCEPT !.pc = "release"]
             ELSE [proc[p] EXCEPT !.pc = "record", !.got = got])

Refresh(p, ends) ==
  LET s == proc[p].snap IN
  /\ proc[p].pc = "post"
  /\ \/ /\ s.serial = 0 \/ s.serial # live[s.grant]   \* reauthorization_required
        /\ Answered(p, 0) /\ UNCHANGED world
     \/ \E e \in ends, kind \in TokenValues(TRUE) :
          /\ s.serial # 0 /\ s.serial = live[s.grant]
          /\ e.acted = 1 => (kind = "new" => live[s.grant] < MaxExpiries + 1)
          /\ live' = [live EXCEPT ![s.grant] = IF e.acted = 1 /\ kind = "new" THEN @ + 1 ELSE @]
          /\ Answered(p, IF e.result = "ok" THEN live'[s.grant] ELSE 0)
          /\ e.result # "ok" => FaultsLeft
          /\ IF e.result = "ok" THEN UNCHANGED used ELSE Spend("faults")
          /\ excused' = IF e.acted = 1 /\ e.result # "ok" THEN excused \cup {s.grant}
                        ELSE excused
          /\ UNCHANGED refused
  /\ UNCHANGED <<fixed, enabled, site, linked, row, primary, link>>

JiraRefresh(p) == provider = "jira" /\ Refresh(p, JiraRequest("POST"))
AsanaRefresh(p) == provider = "asana" /\ Refresh(p, AsanaRequest("POST"))
SlackRefresh(p) ==
  provider = "slack" /\
    Refresh(p, UNION {[acted : {e.acted}, result : SlackCheckedPayload(e.result)] :
                        e \in SlackRequest("POST")})

\* replace_after_refresh; when it fails the answer is dropped.
ReplaceAfterRefresh(p) ==
  LET s == proc[p].snap IN
  /\ proc[p].pc = "record"
  /\ \/ /\ replace_claimed_integration_credentials(p, s)
             \/ replace_claimed_user_integration_credentials(p, s)
        /\ row' = Sealed(s.grant, proc[p].got, s.rev + 1, primary[p])
        /\ Becomes(p, Using(proc[p]))
        /\ UNCHANGED world
     \/ /\ ~replace_claimed_integration_credentials(p, s)
        /\ ~replace_claimed_user_integration_credentials(p, s)
        /\ Becomes(p, [Resting EXCEPT !.pc = "release"])
        /\ UNCHANGED <<row, world>>
     \/ /\ FaultsLeft /\ Spend("faults")   \* the database fails
        /\ Becomes(p, [Resting EXCEPT !.pc = "release"])
        /\ excused' = excused \cup {s.grant}
        /\ UNCHANGED <<row, live, refused>>
  /\ UNCHANGED <<fixed, enabled, site, linked, primary, link>>

\* _release_refresh of the three clients: a failure is only logged.
ReleaseRefresh(p) ==
  /\ proc[p].pc = "release"
  /\ Fails(p)
  /\ \/ /\ row' = IF \/ release_integration_credential_claim(p)
                     \/ release_user_integration_credential_claim(p)
                  THEN [row EXCEPT !.claim = Nobody, !.lapsed = FALSE] ELSE row
        /\ UNCHANGED used
     \/ FaultsLeft /\ Spend("faults") /\ UNCHANGED row
  /\ UNCHANGED <<fixed, enabled, site, linked, primary, link, live, excused, refused>>

(***************************************************************************)
(* The call the token was for.  A refused token is marked expired in the   *)
(* row, whatever the row holds by then, and the call is made once more.    *)
(***************************************************************************)
CallProvider(p, results) ==
  \/ /\ results \cap {"ok", "error"} # {} /\ Fails(p)
     /\ UNCHANGED <<row, used>>
  \/ /\ "unauthorized" \in results /\ used.expiries < MaxExpiries
     /\ Spend("expiries")
     /\ IF proc[p].retried
        THEN Fails(p) /\ UNCHANGED row
        ELSE /\ row' = IF expire_integration_access \/ expire_user_integration_access
                       THEN [row EXCEPT !.fresh = FALSE] ELSE row
             /\ Becomes(p, IF MayCall THEN [Resting EXCEPT !.pc = "open", !.retried = TRUE]
                           ELSE Resting)

Results(ends) == {e.result : e \in ends}

JiraApiRequest(p) ==
  provider = "jira" /\ subject = "site" /\ CallProvider(p, Results(JiraRequest("GET")))
\* A member who disconnected meanwhile ends the call.
JiraUserApiRequest(p) ==
  /\ provider = "jira" /\ subject = "user"
  /\ IF linked THEN CallProvider(p, Results(JiraRequest("POST")))
     ELSE Fails(p) /\ UNCHANGED <<row, used>>
AsanaApiUrlRequest(p) ==
  provider = "asana" /\ subject = "site" /\ CallProvider(p, Results(AsanaRequest("GET")))
AsanaUserApiRequest(p) ==
  /\ provider = "asana" /\ subject = "user"
  /\ IF linked THEN CallProvider(p, Results(AsanaRequest("POST")))
     ELSE Fails(p) /\ UNCHANGED <<row, used>>
SlackWorkspaceCall(p) ==
  provider = "slack" /\ CallProvider(p, UNION {SlackCheckedPayload(r) : r \in Results(SlackRequest("POST"))})

UseToken(p) ==
  /\ proc[p].pc = "use"
  /\ \/ JiraApiRequest(p) \/ JiraUserApiRequest(p)
     \/ AsanaApiUrlRequest(p) \/ AsanaUserApiRequest(p) \/ SlackWorkspaceCall(p)
  /\ UNCHANGED <<fixed, enabled, site, linked, primary, link, live, excused, refused>>

-----------------------------------------------------------------------------
(***************************************************************************)
(* Connecting an account.  The callback exchanges the code for a grant and *)
(* asks the provider which sites it opens and whose account it is: the     *)
(* user's own, or one that belongs to somebody else here.                  *)
(***************************************************************************)
Done == link' = Disconnected
Accounts == {"own", "conflicting"}

NewGrant(kinds, accounts, sites, next) ==
  /\ link.pc = "idle" /\ used.grants < MaxGrants
  /\ Spend("grants")
  /\ \E kind \in kinds, account \in accounts, n \in sites :
       LET g == used.grants + 1
           serial == IF kind = "new" THEN 1 ELSE 0 IN
       /\ live' = [live EXCEPT ![g] = serial]
       /\ IF n = 1
          THEN link' = [Disconnected EXCEPT !.grant = g, !.serial = serial,
                                            !.account = account, !.pc = next]
          ELSE UNCHANGED link   \* site_mismatch, ambiguous_resources
  /\ UNCHANGED <<fixed, enabled, site, linked, row, primary, proc, excused, refused>>

JiraAccessibleResources == {1, 2}
JiraCurrentUser == Accounts
JiraMemberCallback ==
  /\ provider = "jira" /\ subject = "user" /\ site = "on"
  /\ NewGrant(JiraTokenValues(FALSE), JiraCurrentUser, JiraAccessibleResources, "store")
JiraSiteCallback ==
  /\ provider = "jira" /\ subject = "site"
  /\ NewGrant(JiraTokenValues(FALSE), JiraCurrentUser, JiraAccessibleResources, "site")

\* Asana's token answer names the user; the owner's grant waits in
\* integration_oauth_pending until a workspace is chosen.
AsanaCallback ==
  /\ provider = "asana" /\ (subject = "user" => site = "on")
  /\ NewGrant(AsanaTokenValues(FALSE), Accounts, {1, 2},
              IF subject = "site" THEN "pending" ELSE "previous")
SlackCallback == provider = "slack" /\ NewGrant(SlackTokenValues(FALSE), {"own"}, {1}, "site")

SelectAsanaWorkspace ==
  /\ link.pc = "pending" /\ link' = [link EXCEPT !.pc = "site"]
  /\ UNCHANGED <<fixed, enabled, site, linked, row, primary, proc, world>>
\* Ten minutes pass, and the hourly purge removes the row.
PendingExpires ==
  /\ link.pc = "pending" /\ Done
  /\ UNCHANGED <<fixed, enabled, site, linked, row, primary, proc, world>>

(***************************************************************************)
(* The integrations row is created or enabled again.  An account that is   *)
(* seen to conflict ends the flow before anything is stored.               *)
(***************************************************************************)
WithoutUnconfigured == IF Exists THEN "on" ELSE "none"

JiraSite ==
  /\ provider = "jira" /\ link.pc = "site"
  /\ IF link.account = "own"
     THEN site' = "on" /\ link' = [link EXCEPT !.existing = site, !.pc = "store"]
     ELSE site' = (IF site = "none" THEN "none" ELSE "on") /\ Done
AsanaWorkspace ==
  /\ provider = "asana" /\ link.pc = "site"
  /\ IF link.account = "own"
     THEN site' = "on" /\ link' = [link EXCEPT !.existing = site, !.pc = "previous"]
     ELSE site' = WithoutUnconfigured /\ Done
SlackWorkspace ==
  /\ provider = "slack" /\ link.pc = "site"
  /\ site' = "on" /\ link' = [link EXCEPT !.existing = site, !.pc = "store"]

UpsertSite ==
  /\ JiraSite \/ AsanaWorkspace \/ SlackWorkspace
  /\ UNCHANGED <<fixed, enabled, linked, row, primary, proc, world>>

\* Somebody else connects the same account in the meantime.
AccountTaken ==
  /\ link.pc \in {"previous", "store", "link"} /\ link.account = "own" /\ provider # "slack"
  /\ link' = [link EXCEPT !.account = "conflicting"]
  /\ UNCHANGED <<fixed, enabled, site, linked, row, primary, proc, world>>

\* Asana keeps what the vault opened before it stores the new grant.
OpenPrevious ==
  /\ link.pc = "previous"
  /\ \E p \in Callers :
       CASE Exists /\ row.key = primary[p] ->
              link' = [link EXCEPT !.pc = "store", !.prev = row] /\ UNCHANGED row
         [] Exists /\ row.key < primary[p] /\ row.claim = Nobody ->
              /\ row' = Rewrapped(row, primary[p])
              /\ link' = [link EXCEPT !.pc = "store", !.prev = row']
         [] OTHER -> link' = [link EXCEPT !.pc = "store", !.prev = NoRow] /\ UNCHANGED row
  /\ UNCHANGED <<fixed, enabled, site, linked, primary, proc, world>>

(***************************************************************************)
(* The grant is stored; while a refresh holds the row it is refused.       *)
(***************************************************************************)
JiraStoreFails == site' = IF subject = "site" /\ link.existing = "none" THEN "none" ELSE site
AsanaStoreFails == site' = site
SlackStoreFails == site' = IF link.existing = "none" THEN WithoutUnconfigured ELSE link.existing

StoreFails ==
  \/ provider = "jira" /\ JiraStoreFails
  \/ provider = "asana" /\ AsanaStoreFails
  \/ provider = "slack" /\ SlackStoreFails

StoreGrant ==
  /\ link.pc = "store"
  /\ IF MayStore
     THEN /\ VaultStore(link.grant, link.serial)
          /\ UNCHANGED site
          /\ IF provider = "slack" THEN Done ELSE link' = [link EXCEPT !.pc = "link"]
     ELSE StoreFails /\ Done /\ UNCHANGED row
  /\ UNCHANGED <<fixed, enabled, linked, primary, proc, world>>

\* The account must be this user's, enabled, and have a credential.
upsert_jira_user_connection ==
  provider = "jira" /\ Exists /\ site = "on" /\ enabled /\ link.account = "own"
upsert_asana_user_connection ==
  provider = "asana" /\ Exists /\ site = "on" /\ enabled /\ link.account = "own"

UpsertConnection ==
  /\ link.pc = "link"
  /\ IF upsert_jira_user_connection \/ upsert_asana_user_connection
     THEN linked' = TRUE /\ Done /\ UNCHANGED refused
     ELSE /\ link' = [link EXCEPT !.pc = "rollback"]
          /\ refused' = refused \cup {link.grant} /\ UNCHANGED linked
  /\ UNCHANGED <<fixed, enabled, site, row, primary, proc, live, excused, used>>

(***************************************************************************)
(* A deleted row takes its revision with it: the next one starts at 1, so  *)
(* a rewrap that still holds the old row can pass its revision check.      *)
(***************************************************************************)
HeldForRewrap == {proc[p].snap.grant : p \in {q \in Callers : proc[q].pc = "rotate"}}
DeleteRow == row' = NoRow /\ excused' = excused \cup HeldForRewrap

\* A member's new credential is deleted, with whatever it replaced.
JiraMemberRollback == provider = "jira" /\ subject = "user" /\ DeleteRow /\ UNCHANGED site
\* A site's is deleted only if the site is new.
JiraSiteRollback ==
  /\ provider = "jira" /\ subject = "site"
  /\ IF link.existing = "none" THEN DeleteRow /\ site' = "none"
     ELSE UNCHANGED <<row, site>> /\ excused' = excused \cup {link.grant}

\* The token kept before the store was spent meanwhile, or is being spent.
Outdated(s) ==
  \/ s.serial # live[s.grant]
  \/ \E p \in Callers : proc[p].pc \in {"post", "record"} /\ proc[p].snap.grant = s.grant

\* Asana stores the kept credential again, or deletes the new one.
RestorePrevious ==
  IF link.prev = NoRow THEN DeleteRow
  ELSE IF MayStore
  THEN /\ \E p \in Callers :
            row' = [Sealed(link.prev.grant, link.prev.serial, row.rev + 1, primary[p])
                      EXCEPT !.fresh = link.prev.fresh]
       /\ excused' = excused \cup (IF Outdated(link.prev) THEN {link.prev.grant} ELSE {})
  ELSE UNCHANGED row /\ excused' = excused \cup {link.grant}

AsanaSiteRollback ==
  /\ provider = "asana" /\ subject = "site" /\ RestorePrevious
  /\ site' = IF row' = NoRow THEN "none" ELSE site
AsanaMemberRollback ==
  provider = "asana" /\ subject = "user" /\ RestorePrevious /\ UNCHANGED site

Rollback ==
  /\ link.pc = "rollback"
  /\ JiraMemberRollback \/ JiraSiteRollback \/ AsanaSiteRollback \/ AsanaMemberRollback
  /\ Done
  /\ UNCHANGED <<fixed, enabled, linked, primary, proc, live, refused, used>>

\* Disconnecting deletes the credential and the connection; a site takes its
\* members' with it.
DisconnectJiraSite == provider = "jira" /\ site = "on" /\ DeleteRow /\ site' = "off"
DisconnectAsanaSite == provider = "asana" /\ site = "on" /\ DeleteRow /\ site' = "off"
DisconnectSlackSite == provider = "slack" /\ site = "on" /\ DeleteRow /\ site' = "off"
DisconnectJiraUser ==
  provider = "jira" /\ subject = "user" /\ linked /\ DeleteRow /\ UNCHANGED site
DisconnectAsanaUser ==
  provider = "asana" /\ subject = "user" /\ linked /\ DeleteRow /\ UNCHANGED site

Disconnect ==
  /\ linked' = FALSE
  /\ \/ DisconnectJiraSite \/ DisconnectAsanaSite \/ DisconnectSlackSite
     \/ DisconnectJiraUser \/ DisconnectAsanaUser
  /\ UNCHANGED <<fixed, enabled, primary, proc, link, live, refused, used>>

-----------------------------------------------------------------------------
(***************************************************************************)
(* Time, administration and faults.                                        *)
(***************************************************************************)
AccessExpires ==
  /\ Exists /\ row.fresh /\ row.serial # 0 /\ used.expiries < MaxExpiries
  /\ row' = [row EXCEPT !.fresh = FALSE] /\ Spend("expiries")
  /\ UNCHANGED <<fixed, enabled, site, linked, primary, proc, link, live, excused, refused>>

\* Ninety seconds pass.  A holder that is still at work is overtaken.
Working(p) == proc[p].pc \in {"post", "record"} /\ proc[p].snap.grant = row.grant
LeaseExpires ==
  /\ Exists /\ row.claim # Nobody /\ ~row.lapsed
  /\ row' = [row EXCEPT !.lapsed = TRUE]
  /\ IF Working(row.claim)
     THEN FaultsLeft /\ Spend("faults") /\ excused' = excused \cup {row.grant}
     ELSE UNCHANGED <<used, excused>>
  /\ UNCHANGED <<fixed, enabled, site, linked, primary, proc, link, live, refused>>

DisableUser ==
  /\ subject = "user" /\ enabled /\ enabled' = FALSE
  /\ UNCHANGED <<fixed, site, linked, row, primary, proc, link, world>>
EnableUser ==
  /\ ~enabled /\ enabled' = TRUE
  /\ UNCHANGED <<fixed, site, linked, row, primary, proc, link, world>>

LostWith(p) == IF proc[p].pc = "record" THEN {proc[p].snap.grant} ELSE {}

Crash(p) ==
  /\ proc[p].pc # "idle" /\ FaultsLeft /\ Spend("faults")
  /\ excused' = excused \cup LostWith(p) /\ Fails(p)
  /\ UNCHANGED <<fixed, enabled, site, linked, row, primary, link, live, refused>>

\* A replica restarts with a new primary key in front of its ring.
RotateKey(p) ==
  /\ primary[p] < MaxRotations /\ primary' = [primary EXCEPT ![p] = @ + 1]
  /\ excused' = excused \cup LostWith(p) /\ Fails(p)
  /\ UNCHANGED <<fixed, enabled, site, linked, row, link, live, refused, used>>

-----------------------------------------------------------------------------
Init ==
  /\ provider \in {"jira", "asana", "slack"}
  /\ subject \in IF provider = "slack" THEN {"site"} ELSE {"site", "user"}
  /\ enabled = TRUE /\ linked = FALSE /\ row = NoRow /\ primary = [p \in Callers |-> 0]
  /\ site = IF subject = "user" THEN "on" ELSE "none"
  /\ live = [g \in Grants |-> 0]
  /\ proc = [p \in Callers |-> Resting] /\ link = Disconnected
  /\ refused = {} /\ excused = {}
  /\ used = [expiries |-> 0, faults |-> 0, grants |-> 0]

\* The steps a caller takes by itself, once it has begun.
Step(p) ==
  \/ OpenRead(p) \/ OpenRotate(p) \/ ClaimForRefresh(p)
  \/ JiraRefresh(p) \/ AsanaRefresh(p) \/ SlackRefresh(p)
  \/ ReplaceAfterRefresh(p) \/ ReleaseRefresh(p) \/ UseToken(p)

Next ==
  \/ \E p \in Callers : AskForToken(p) \/ RewrapAll(p) \/ Step(p) \/ Crash(p) \/ RotateKey(p)
  \/ JiraMemberCallback \/ JiraSiteCallback \/ AsanaCallback \/ SlackCallback
  \/ SelectAsanaWorkspace \/ PendingExpires \/ UpsertSite \/ AccountTaken
  \/ OpenPrevious \/ StoreGrant \/ UpsertConnection \/ Rollback \/ Disconnect
  \/ AccessExpires \/ LeaseExpires \/ DisableUser \/ EnableUser

Spec == Init /\ [][Next]_vars

Newest == CHOOSE k \in Keys : (\E p \in Callers : primary[p] = k) /\ \A p \in Callers : primary[p] <= k

(***************************************************************************)
(* Fairness: started calls run on, jobs and timers keep asking, leases run *)
(* out, a deployment that began ends, and a person who began to connect    *)
(* finishes.                                                               *)
(***************************************************************************)
Fairness ==
  /\ \A p \in Callers : WF_vars(Step(p)) /\ WF_vars(AskForToken(p)) /\ WF_vars(RewrapAll(p))
  /\ \A p \in Callers : WF_vars(RotateKey(p) /\ primary[p] < Newest)
  /\ WF_vars(LeaseExpires)
  /\ WF_vars(OpenPrevious \/ StoreGrant \/ UpsertConnection \/ Rollback \/ UpsertSite)

FairSpec == Spec /\ Fairness

-----------------------------------------------------------------------------
(***************************************************************************)
(* Properties.                                                             *)
(***************************************************************************)

\* The row holds the newest refresh token of its grant, or the caller that
\* received it is about to write it, unless a lost answer, a crash, a failed
\* write or an overrun lease lost it: rewrapping, expiring and claiming never do.
NewestTokenKept ==
  Exists /\ row.serial # 0 /\ row.serial # live[row.grant] =>
    \/ row.grant \in excused
    \/ \E p \in Callers : /\ proc[p].pc = "record" /\ row.claim = p
                          /\ proc[p].snap.grant = row.grant
                          /\ proc[p].got = live[row.grant]

\* A refresh token is spent by one caller at a time, across replicas, unless
\* the caller outlived its lease.
OneSpender ==
  \A p, q \in Callers :
    p # q /\ proc[p].pc \in {"post", "record"} /\ proc[q].pc \in {"post", "record"}
      /\ proc[p].snap.grant = proc[q].snap.grant
    => proc[p].snap.grant \in excused

\* Whose grant the row holds is decided by the connecting flow alone: neither a
\* refresh nor a rewrap that began earlier puts an old grant back, and a grant
\* whose account was turned down does not stay once its callback has answered,
\* except where README.md says the code leaves it.
CallbackDecides ==
  [][/\ Exists /\ row' # NoRow /\ row'.grant # row.grant
          => link' # link \/ row'.grant \in excused
     /\ row' # NoRow /\ row'.grant \in refused'
          => link'.pc = "rollback" \/ row'.grant \in excused']_vars

\* A token that ran out is refreshed in the end, whichever callers died on
\* the way, while the grant is alive and the row is under the newest key.
AccessComesBack ==
  (Exists /\ ~row.fresh /\ row.serial # 0)
    ~> (\/ ~Exists \/ row.fresh \/ row.serial # live[row.grant]
        \/ ~MayCall \/ row.key # Newest)
=============================================================================
