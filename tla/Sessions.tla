------------------------------ MODULE Sessions ------------------------------
(***************************************************************************)
(* One user's sessions: AuthService with its refresh tokens and e-mailed   *)
(* links, and the browser that keeps a pair of tokens in localStorage and  *)
(* renews it in a response interceptor, in any number of calls at once.    *)
(* A refresh token is a number, which stands for the access token signed   *)
(* with it too; that one may have expired whenever it is looked at.  A     *)
(* password is its version.                                                *)
(***************************************************************************)
EXTENDS Naturals, FiniteSets

CONSTANTS
  Call,       \* requests the pages of one browser send
  Request,    \* requests of the same user from elsewhere
  Link,       \* tokens e-mailed in a link
  Purpose,    \* what each link is for, "reset" or "verify"
  Casts,      \* which calls, requests and links take part together
  MaxTokens,  \* bound: rows of refresh_tokens
  MaxFaults   \* bound: calls to the database or to Redis that reject, and answers lost

None == 0
Token == 1..MaxTokens

ASSUME PurposeAssumption == Purpose \in [Link -> {"reset", "verify"}]
ASSUME LinkAssumption == Link # {}
ASSUME CastsAssumption == Casts \subseteq SUBSET (Call \cup Request \cup Link)
ASSUME MaxAssumption == MaxTokens \in Nat \ {0}

VARIABLES
  password,   \* version of users.password_hash
  verified,   \* users.is_email_verified
  tokens,     \* refresh_tokens: "dead" when revoked or found expired
  links,      \* keys pwd-reset:* and email-verify:* of Redis, and how often each was used
  storage,    \* localStorage of the browser
  call,       \* where each call of the browser is
  req,        \* where each other request is
  resetTo,    \* history: the last password whose reset has revoked the tokens
  excused,    \* history: what went on that a property makes an exception for
  faults

server == <<password, verified, tokens, links>>
vars == <<server, storage, call, req, resetTo, excused, faults>>

CallLabel == {"idle", "sent", "grant", "granted", "refused", "find", "rotate", "renew", "renewed",
              "denied", "over"}
RequestLabel == {"idle", "update", "del", "revoke", "over"}
Exception == {"sameToken", "sameLink", "linkKept", "issuing", "switched", "pageLeft", "forgotten"}

TokenRow == [state : {"none", "live", "dead"}, since : Nat, from : Token \cup {None}]
CallState == [kind : {"data", "login"}, pc : CallLabel, retry : BOOLEAN, left : BOOLEAN,
              token : Token \cup {None}, password : Nat]
RequestState == [pc : RequestLabel, link : Link, password : Nat]

TypeOK ==
  /\ password \in Nat \ {0} /\ verified \in BOOLEAN
  /\ tokens \in [Token -> TokenRow]
  /\ links \in [Link -> [state : {"none", "live", "gone"}, uses : Nat]]
  /\ storage \in [token : Token \cup {None}, identity : BOOLEAN]
  /\ call \in [Call -> CallState] /\ req \in [Request -> RequestState]
  /\ resetTo \in 0..password /\ excused \subseteq Exception /\ faults \in Nat
  /\ \A t \in Token : tokens[t].since <= password
  /\ \A c \in Call : call[c].password <= password
  /\ \A r \in Request : req[r].password <= password
  /\ \A t \in {storage.token} \cup {tokens[u].from : u \in Token} \cup {call[c].token : c \in Call} :
       t # None => tokens[t].state # "none"

-----------------------------------------------------------------------------

Unsent == [kind |-> "data", pc |-> "idle", retry |-> FALSE, left |-> FALSE, token |-> None, password |-> 0]

(* A browser that has logged in before, or never.                          *)
Init ==
  /\ password = 1 /\ verified = FALSE
  /\ \E known \in BOOLEAN :
       /\ tokens = [t \in Token |-> LET is == known /\ t = 1 IN
                      [state |-> IF is THEN "live" ELSE "none", since |-> IF is THEN 1 ELSE 0, from |-> None]]
       /\ storage = [token |-> IF known THEN 1 ELSE None, identity |-> known]
  /\ \E cast \in Casts :
       /\ call = [c \in Call |-> IF c \in cast THEN Unsent ELSE [Unsent EXCEPT !.pc = "over"]]
       /\ req = [r \in Request |-> [pc |-> IF r \in cast THEN "idle" ELSE "over",
                                    link |-> CHOOSE l \in Link : TRUE, password |-> 0]]
       /\ links = [l \in Link |-> [state |-> IF l \in cast THEN "none" ELSE "gone", uses |-> 0]]
  /\ resetTo = 0 /\ excused = {} /\ faults = 0

(* generateTokens: a row with a fresh value, and an access token.          *)
Fresh(t) == tokens[t].state = "none" /\ \A u \in 1..(t - 1) : tokens[u].state # "none"

Issue(t, since, from) ==
  /\ Fresh(t)
  /\ tokens' = [tokens EXCEPT ![t] = [state |-> "live", since |-> since, from |-> from]]

Revoked(kill) == [t \in Token |-> IF t \in kill /\ tokens[t].state = "live"
                                  THEN [tokens[t] EXCEPT !.state = "dead"] ELSE tokens[t]]

Excuse(e, when) == excused' = IF when THEN excused \cup {e} ELSE excused

-----------------------------------------------------------------------------
(* The browser, and what the server does for its calls.                    *)

At(c, label) == call[c].pc = label /\ UNCHANGED <<password, verified, links, req, resetTo>>
Step(c, fields) == call' = [call EXCEPT ![c] = fields]
Goto(c, label) == Step(c, [call[c] EXCEPT !.pc = label])
End(c) == Step(c, [Unsent EXCEPT !.pc = "over"])

(* A page calls the API with the stored access token, or the login form is *)
(* sent with this password or an older one.                                *)
SendData(c) ==
  /\ At(c, "idle") /\ storage.token # None
  /\ Goto(c, "sent")
  /\ UNCHANGED <<tokens, storage, excused, faults>>

SendLogin(c) ==
  /\ At(c, "idle")
  /\ \E p \in {password, password - 1} :
       Step(c, [call[c] EXCEPT !.pc = "sent", !.kind = "login", !.password = p])
  /\ UNCHANGED <<tokens, storage, excused, faults>>

(* JwtStrategy lets a call with an unexpired access token through.         *)
Authenticate(c) ==
  /\ At(c, "sent") /\ call[c].kind = "data"
  /\ End(c) \/ Goto(c, "refused")
  /\ UNCHANGED <<tokens, storage, excused, faults>>

(* login: the password is compared with the row read; the membership is    *)
(* read and lastLoginAt written, and then the tokens are made.             *)
Compare(c) ==
  /\ At(c, "sent") /\ call[c].kind = "login"
  /\ Goto(c, IF call[c].password = password THEN "grant" ELSE "refused")
  /\ UNCHANGED <<tokens, storage, excused, faults>>

Grant(c) ==
  /\ At(c, "grant")
  /\ \E t \in Token : /\ Issue(t, call[c].password, None)
                      /\ Step(c, [call[c] EXCEPT !.pc = "granted", !.token = t])
  /\ UNCHANGED <<storage, excused, faults>>

(* Mutant of StoreGranted: the user and the organization are not kept.     *)
StoreTokensOnly(c) ==
  /\ At(c, "granted") /\ ~call[c].left
  /\ storage' = [storage EXCEPT !.token = call[c].token]
  /\ End(c)
  /\ UNCHANGED <<tokens, excused, faults>>

StoreGranted(c) ==
  /\ At(c, "granted") /\ ~call[c].left
  /\ storage' = [token |-> call[c].token, identity |-> TRUE]
  /\ End(c)
  /\ UNCHANGED <<tokens, excused, faults>>

(* The interceptor: a call refused for the first time, the login too,      *)
(* takes the refresh token stored by now.                                  *)
BeginRefresh(c) ==
  /\ At(c, "refused") /\ ~call[c].retry /\ ~call[c].left /\ storage.token # None
  /\ Step(c, [call[c] EXCEPT !.pc = "find", !.retry = TRUE, !.token = storage.token])
  /\ UNCHANGED <<tokens, storage, excused, faults>>

(* Mutant of RefusedAgain: the second refusal ends the session too.        *)
ForgetAgain(c) ==
  /\ At(c, "refused") /\ call[c].retry /\ ~call[c].left
  /\ storage' = [token |-> None, identity |-> FALSE]
  /\ End(c)
  /\ UNCHANGED <<tokens, excused, faults>>

RefusedAgain(c) ==
  /\ At(c, "refused") /\ call[c].retry /\ ~call[c].left
  /\ End(c)
  /\ UNCHANGED <<tokens, storage, excused, faults>>

(* refreshToken: the row is read, then the membership; a revoked one is    *)
(* refused, and any may have expired.                                      *)
Find(c) ==
  /\ At(c, "find")
  /\ \/ /\ tokens[call[c].token].state = "live"
        /\ Goto(c, "rotate")
        /\ Excuse("sameToken", \E b \in Call : call[b].pc = "rotate" /\ call[b].token = call[c].token)
        /\ UNCHANGED tokens
     \/ /\ tokens' = Revoked({call[c].token})
        /\ Goto(c, "denied")
        /\ UNCHANGED excused
  /\ UNCHANGED <<storage, faults>>

(* Mutant of Rotate: the row is left as it is.                             *)
RotateNothing(c) == At(c, "rotate") /\ Goto(c, "renew") /\ UNCHANGED <<tokens, storage, excused, faults>>

Rotate(c) ==
  /\ At(c, "rotate")
  /\ tokens' = Revoked({call[c].token})
  /\ Goto(c, "renew")
  /\ UNCHANGED <<storage, excused, faults>>

Renew(c) ==
  /\ At(c, "renew")
  /\ \E t \in Token : /\ Issue(t, tokens[call[c].token].since, call[c].token)
                      /\ Step(c, [call[c] EXCEPT !.pc = "renewed", !.token = t])
  /\ UNCHANGED <<storage, excused, faults>>

(* Mutant of StoreRenewed: only the access token is kept.                  *)
KeepOldToken(c) ==
  /\ At(c, "renewed") /\ ~call[c].left
  /\ Goto(c, "sent")
  /\ UNCHANGED <<tokens, storage, excused, faults>>

(* The new pair is stored, and the call sent again with it.                *)
StoreRenewed(c) ==
  /\ At(c, "renewed") /\ ~call[c].left
  /\ storage' = [storage EXCEPT !.token = call[c].token]
  /\ Goto(c, "sent")
  /\ UNCHANGED <<tokens, excused, faults>>

Renewing(c) == ~call[c].left /\ call[c].pc \in {"find", "rotate", "renew", "renewed"}

(* No token to exchange, or an error of any kind: all that is stored goes, *)
(* and the page is left for /login.                                        *)
Forget(c) ==
  /\ ~call[c].left
  /\ At(c, "denied") \/ (At(c, "refused") /\ ~call[c].retry /\ storage.token = None)
  /\ storage' = [token |-> None, identity |-> FALSE]
  /\ End(c)
  /\ Excuse("forgotten", \E b \in Call \ {c} : Renewing(b))
  /\ UNCHANGED <<tokens, faults>>

AtServer(c) == call[c].pc \in {"grant", "find", "rotate", "renew"} \/ (call[c].pc = "sent" /\ call[c].kind = "login")

InProgress(c) == call[c].pc \notin {"idle", "over"}

(* A page is reloaded, left or closed: its answer reaches nobody, and what *)
(* the server does for it goes on.                                         *)
Leave(c) ==
  /\ InProgress(c) /\ ~call[c].left
  /\ IF AtServer(c) THEN Step(c, [call[c] EXCEPT !.left = TRUE]) ELSE End(c)
  /\ Excuse("pageLeft", Renewing(c) \/ call[c].pc = "denied")
  /\ UNCHANGED <<server, storage, req, resetTo, faults>>

(* The button of the dashboard: the server is not told.                    *)
Logout ==
  /\ storage.token # None
  /\ storage' = [storage EXCEPT !.token = None]
  /\ UNCHANGED <<server, call, req, resetTo, excused, faults>>

(* A database call rejects, or the answer is lost: the interceptor takes   *)
(* either for a refusal of the refresh, the login form shows an error.     *)
Fault(c) ==
  /\ faults < MaxFaults /\ faults' = faults + 1
  /\ \/ /\ call[c].pc \in {"find", "rotate", "renew", "renewed"}
        /\ Goto(c, "denied")
     \/ /\ call[c].pc \in {"grant", "granted"} \/ (call[c].pc = "sent" /\ call[c].kind = "login")
        /\ End(c)
  /\ UNCHANGED <<server, storage, req, resetTo, excused>>

-----------------------------------------------------------------------------
(* The same user elsewhere.                                                *)

ReqAt(r, label) == req[r].pc = label /\ UNCHANGED <<storage, call>>
ReqStep(r, fields) == req' = [req EXCEPT ![r] = fields]
ReqGoto(r, label) == ReqStep(r, [req[r] EXCEPT !.pc = label])

(* JwtAuthGuard: an access token of the user's, expired or not yet.        *)
SomeoneIsIn == \E t \in Token : tokens[t].state # "none"

Mail(l) ==
  /\ links[l].state = "none" /\ links' = [links EXCEPT ![l].state = "live"]
  /\ UNCHANGED <<password, verified, tokens, storage, call, req, resetTo, excused, faults>>

(* The key is set whether or not the mail is then sent.                    *)
forgotPassword(l) == Purpose[l] = "reset" /\ Mail(l)

resendVerification(l) == Purpose[l] = "verify" /\ ~verified /\ SomeoneIsIn /\ Mail(l)

(* resetPassword and verifyEmail: the key is read, the row of the user     *)
(* written, the key deleted, and after a reset every token revoked.        *)
OpenLink(r, l) ==
  /\ ReqAt(r, "idle") /\ links[l].state = "live"
  /\ ReqStep(r, [req[r] EXCEPT !.pc = "update", !.link = l])
  /\ Excuse("sameLink", \E q \in Request : req[q].link = l /\ req[q].pc \in {"update", "del"})
  /\ UNCHANGED <<server, resetTo, faults>>

UpdateUser(r) ==
  LET l == req[r].link IN
  /\ ReqAt(r, "update")
  /\ links' = [links EXCEPT ![l].uses = @ + 1]
  /\ IF Purpose[l] = "reset"
     THEN password' = password + 1 /\ UNCHANGED verified
     ELSE verified' = TRUE /\ UNCHANGED password
  /\ ReqStep(r, [req[r] EXCEPT !.pc = "del", !.password = password'])
  /\ UNCHANGED <<tokens, resetTo, excused, faults>>

AfterDelete(r) == IF Purpose[req[r].link] = "reset" THEN "revoke" ELSE "over"

(* Mutant of DeleteLink: the key stays until it expires.                   *)
KeepLink(r) == ReqAt(r, "del") /\ ReqGoto(r, AfterDelete(r)) /\ UNCHANGED <<server, resetTo, excused, faults>>

DeleteLink(r) ==
  /\ ReqAt(r, "del")
  /\ links' = [links EXCEPT ![req[r].link].state = "gone"]
  /\ ReqGoto(r, AfterDelete(r))
  /\ UNCHANGED <<password, verified, tokens, resetTo, excused, faults>>

Issuing == \E c \in Call : call[c].pc \in {"grant", "rotate", "renew"}

EndReset(r) ==
  /\ ReqAt(r, "revoke") /\ ReqGoto(r, "over")
  /\ resetTo' = IF req[r].password > resetTo THEN req[r].password ELSE resetTo
  /\ Excuse("issuing", Issuing)
  /\ UNCHANGED <<password, verified, links, faults>>

(* Mutant of RevokeAll: only the newest session ends.                      *)
RevokeNewest(r) == EndReset(r) /\ tokens' = Revoked({t \in Token : \A u \in Token : tokens[u].state # "none" => u <= t})

RevokeAll(r) == EndReset(r) /\ tokens' = Revoked(Token)

(* changePassword, once the current one has been compared, leaves the      *)
(* tokens as they are.                                                     *)
changePassword(r) ==
  /\ ReqAt(r, "idle") /\ SomeoneIsIn
  /\ ReqGoto(r, "over")
  /\ password' = password + 1
  /\ UNCHANGED <<verified, tokens, links, resetTo, excused, faults>>

(* logout of one session or of all.                                        *)
logout(r) ==
  /\ ReqAt(r, "idle") /\ SomeoneIsIn
  /\ \E kill \in {Token} \cup {{t} : t \in Token} : tokens' = Revoked(kill)
  /\ ReqGoto(r, "over")
  /\ UNCHANGED <<password, verified, links, resetTo, excused, faults>>

(* switchOrganization: a member gets a new pair, and the old one is kept.  *)
switchOrganization(r, t) ==
  /\ ReqAt(r, "idle") /\ tokens[t].state # "none"
  /\ ReqGoto(r, "over")
  /\ \E u \in Token : Issue(u, tokens[t].since, None)
  /\ Excuse("switched", tokens[t].since < password)
  /\ UNCHANGED <<password, verified, links, resetTo, faults>>

Reject(r) ==
  /\ faults < MaxFaults /\ faults' = faults + 1
  /\ req[r].pc \in {"update", "del", "revoke"}
  /\ ReqGoto(r, "over")
  /\ Excuse("linkKept", req[r].pc = "del")
  /\ UNCHANGED <<server, storage, call, resetTo>>

-----------------------------------------------------------------------------

Browser(c) ==
  \/ Authenticate(c) \/ Compare(c) \/ Grant(c) \/ StoreGranted(c) \/ BeginRefresh(c)
  \/ RefusedAgain(c) \/ Find(c) \/ Rotate(c) \/ Renew(c) \/ StoreRenewed(c) \/ Forget(c)

Elsewhere(r) ==
  \/ changePassword(r) \/ logout(r) \/ UpdateUser(r) \/ DeleteLink(r) \/ RevokeAll(r) \/ Reject(r)
  \/ \E l \in Link : OpenLink(r, l)
  \/ \E t \in Token : switchOrganization(r, t)

Next ==
  \/ \E c \in Call : SendData(c) \/ SendLogin(c) \/ Browser(c) \/ Leave(c) \/ Fault(c)
  \/ \E r \in Request : Elsewhere(r)
  \/ \E l \in Link : forgotPassword(l) \/ resendVerification(l)
  \/ Logout

Spec == Init /\ [][Next]_vars

-----------------------------------------------------------------------------
(* Properties.                                                             *)

(* refreshToken: a refresh token buys one other, unless two refreshes      *)
(* with it both found it unrevoked.                                        *)
RotationIsSingle ==
  "sameToken" \notin excused =>
    \A t, u \in Token : tokens[t].from # None /\ tokens[t].from = tokens[u].from => t = u

(* resetPassword: once its tokens are revoked, no session opened with an   *)
(* older password is left, however often it was renewed - unless a login,  *)
(* a refresh or a switch had passed its check and not yet made its token   *)
(* then, or an access token from before was switched.                      *)
ResetEndsSessions ==
  {"issuing", "switched"} \cap excused = {} =>
    \A t \in Token : tokens[t].state = "live" => tokens[t].since >= resetTo

(* resetPassword and verifyEmail: a link works once, unless two requests   *)
(* opened it at once or the deletion of its key was rejected.              *)
LinkWorksOnce ==
  {"sameLink", "linkKept"} \cap excused = {} => \A l \in Link : links[l].uses <= 1

(* The interceptor: the refresh token in localStorage is never one already *)
(* exchanged, but while the call that exchanged it waits for the answer -  *)
(* unless the page was left during a refresh.                              *)
StoredTokenIsUnspent ==
  "pageLeft" \notin excused =>
    \A t \in Token : storage.token # None /\ tokens[t].from = storage.token =>
      \E c \in Call : call[c].pc \in {"rotate", "renew", "renewed", "denied"}

(* The pages: where there are tokens there are a user and an organization, *)
(* unless a refresh was in progress when another call forgot all four.     *)
SessionIsWhole == "forgotten" \notin excused => (storage.token # None => storage.identity)

(* The type invariant; a link that works once but for its two exceptions;  *)
(* and pages that, where they have tokens, have a user and an organization.*)
SessionsInv == TypeOK /\ LinkWorksOnce /\ SessionIsWhole

(* The interceptor: what a refused call makes the browser forget is a      *)
(* session the server refuses, or one stored while the call waited, or an  *)
(* answer was lost.                                                        *)
ForgetsOnlyDeadSessions ==
  [][\A c \in Call : call[c].pc # "over" /\ call'[c].pc = "over" /\ storage.token # None /\ storage'.token = None
       => \/ tokens[storage.token].state = "dead" \/ storage.token # call[c].token \/ faults > 0]_vars

-----------------------------------------------------------------------------
(* The inductive invariant.  What a call holds, and who else does.         *)
HoldsToken(c) ==
  call[c].pc \in {"granted", "find", "rotate", "renew", "renewed", "denied"} => call[c].token # None

(* A token not stored yet is known to the call that got it alone.          *)
HeldAlone(c) ==
  call[c].pc \in {"granted", "renewed"} =>
    /\ storage.token # call[c].token
    /\ \A t \in Token : tokens[t].from # call[c].token
    /\ \A b \in Call \ {c} :
         call[b].pc \in {"find", "rotate", "renew", "granted", "renewed"} => call[b].token # call[c].token

(* A token that was exchanged is revoked, and so is one about to be.       *)
SpentIsDead ==
  /\ \A t \in Token : tokens[t].from # None => tokens[tokens[t].from].state = "dead"
  /\ \A c \in Call : call[c].pc = "renew" => tokens[call[c].token].state = "dead"

Rotating(c) == call[c].pc \in {"rotate", "renew"}

RotatesAlone ==
  "sameToken" \notin excused =>
    \A c \in Call : Rotating(c) =>
      /\ \A t \in Token : tokens[t].from # call[c].token
      /\ \A b \in Call \ {c} : Rotating(b) => call[b].token # call[c].token

(* What is about to be issued is no older than the last reset.             *)
IssuesAreRecent ==
  {"issuing", "switched"} \cap excused = {} =>
    \A c \in Call : /\ call[c].pc = "grant" => call[c].password >= resetTo
                    /\ Rotating(c) => tokens[call[c].token].since >= resetTo

RenewingIsWhole == "forgotten" \notin excused => \A c \in Call : Renewing(c) => storage.identity

LeftBehind ==
  "pageLeft" \notin excused =>
    \A c \in Call : call[c].left => call[c].pc \in {"sent", "grant", "granted", "refused", "over"}

DeniedIsDead == faults = 0 => \A c \in Call : call[c].pc = "denied" => tokens[call[c].token].state = "dead"

BrowserInv ==
  /\ SpentIsDead /\ RotatesAlone /\ RotationIsSingle
  /\ IssuesAreRecent /\ ResetEndsSessions
  /\ RenewingIsWhole /\ SessionIsWhole
  /\ LeftBehind /\ StoredTokenIsUnspent /\ DeniedIsDead
  /\ \A c \in Call : HoldsToken(c) /\ HeldAlone(c)

(* A link has one request at work with it, which counts its use.           *)
Opened(r) == req[r].pc \in {"update", "del"}

LinksInv ==
  {"sameLink", "linkKept"} \cap excused = {} =>
    /\ \A l \in Link : \/ links[l].uses = 0
                       \/ /\ links[l].uses = 1
                          /\ links[l].state = "gone" \/ \E r \in Request : req[r].pc = "del" /\ req[r].link = l
    /\ \A r \in Request : Opened(r) =>
         /\ req[r].pc = "update" => links[req[r].link].uses = 0
         /\ \A q \in Request \ {r} : Opened(q) => req[q].link # req[r].link

IInv == TypeOK /\ BrowserInv /\ LinksInv
=============================================================================
