--------------------------- MODULE Browser_proofs ---------------------------
(***************************************************************************)
(* Proofs about what a browser keeps.  Of Sessions: what the rotation of   *)
(* refresh tokens, a password reset, an e-mailed link and the interceptor  *)
(* guarantee, for any number of calls, requests, links and tokens.  Of     *)
(* Console: what the pages show of the changes made from them, for any     *)
(* number of items, clicks and lost answers.                               *)
(***************************************************************************)
EXTENDS Sessions, Console, TLAPS

-----------------------------------------------------------------------------
(* Calls and rows.                                                         *)

LEMMA NoneIsNoToken == None \notin Token
  BY DEF None, Token

LEMMA Stepped ==
  ASSUME TypeOK, NEW c \in Call, NEW new \in CallState, Step(c, new)
  PROVE  /\ call' \in [Call -> CallState]
         /\ call'[c] = new
         /\ \A b \in Call \ {c} : call'[b] = call[b]
  BY DEF TypeOK, Step

LEMMA Moved ==
  ASSUME TypeOK, NEW c \in Call, NEW label \in CallLabel, Goto(c, label)
  PROVE  /\ call' \in [Call -> CallState]
         /\ call'[c].pc = label /\ call'[c].kind = call[c].kind /\ call'[c].left = call[c].left
         /\ call'[c].token = call[c].token /\ call'[c].password = call[c].password
         /\ \A b \in Call \ {c} : call'[b] = call[b]
<1> DEFINE new == [call[c] EXCEPT !.pc = label]
<1>1. /\ new \in CallState /\ new.pc = label /\ new.kind = call[c].kind /\ new.left = call[c].left
      /\ new.token = call[c].token /\ new.password = call[c].password
  BY DEF TypeOK, CallState
<1>2. Step(c, new)
  BY DEF Goto
<1> HIDE DEF new
<1>3. QED
  BY <1>1, <1>2, Stepped

LEMMA Ended ==
  ASSUME TypeOK, NEW c \in Call, End(c)
  PROVE  /\ call' \in [Call -> CallState]
         /\ call'[c].pc = "over" /\ ~call'[c].left /\ call'[c].token = None /\ call'[c].password <= password
         /\ \A b \in Call \ {c} : call'[b] = call[b]
<1> DEFINE new == [Unsent EXCEPT !.pc = "over"]
<1>1. new \in CallState /\ new.pc = "over" /\ new.left = FALSE /\ new.token = None /\ new.password = 0
  BY DEF Unsent, CallState, CallLabel
<1>2. Step(c, new)
  BY DEF End
<1>3. 0 <= password
  BY DEF TypeOK
<1> HIDE DEF new
<1>4. QED
  BY <1>1, <1>2, <1>3, Stepped

(* Rows only ever go from live to dead.                                    *)
Aged ==
  \A t \in Token :
    /\ tokens'[t].since = tokens[t].since /\ tokens'[t].from = tokens[t].from
    /\ tokens'[t].state = tokens[t].state \/ (tokens[t].state = "live" /\ tokens'[t].state = "dead")

LEMMA RevokedAges ==
  ASSUME TypeOK, NEW kill \in SUBSET Token, tokens' = Revoked(kill)
  PROVE  /\ tokens' \in [Token -> TokenRow] /\ Aged
         /\ \A t \in kill : tokens'[t].state # "live"
<1>1. ASSUME NEW t \in Token
      PROVE  /\ tokens'[t] \in TokenRow
             /\ tokens'[t].since = tokens[t].since /\ tokens'[t].from = tokens[t].from
             /\ tokens'[t].state = IF t \in kill /\ tokens[t].state = "live" THEN "dead" ELSE tokens[t].state
  <2> DEFINE row == [tokens[t] EXCEPT !.state = "dead"]
  <2>1. tokens[t] \in TokenRow
    BY DEF TypeOK
  <2>2. row \in TokenRow /\ row.since = tokens[t].since /\ row.from = tokens[t].from /\ row.state = "dead"
    BY <2>1 DEF TokenRow
  <2>3. tokens'[t] = IF t \in kill /\ tokens[t].state = "live" THEN row ELSE tokens[t]
    BY DEF Revoked
  <2> HIDE DEF row
  <2>4. QED
    BY <2>1, <2>2, <2>3
<1>2. tokens' = [t \in Token |-> tokens'[t]]
  BY DEF Revoked
<1>3. tokens' \in [Token -> TokenRow]
  BY <1>1, <1>2
<1>4. QED
  BY <1>1, <1>3 DEF Aged

(* A new row is no token anyone has.                                       *)
LEMMA Issued ==
  ASSUME TypeOK, NEW t \in Token, NEW since \in Nat, NEW from \in Token \cup {None}, Issue(t, since, from)
  PROVE  /\ tokens' \in [Token -> TokenRow]
         /\ tokens'[t].state = "live" /\ tokens'[t].since = since /\ tokens'[t].from = from
         /\ \A u \in Token \ {t} : tokens'[u] = tokens[u]
         /\ tokens[t].state = "none"
         /\ storage.token # t
         /\ \A u \in Token : tokens[u].from # t
         /\ \A c \in Call : call[c].token # t
<1> DEFINE row == [state |-> "live", since |-> since, from |-> from]
<1>1. row \in TokenRow /\ row.state = "live" /\ row.since = since /\ row.from = from
  BY DEF TokenRow
<1>2. tokens[t].state = "none" /\ tokens' = [tokens EXCEPT ![t] = row]
  BY DEF Issue, Fresh
<1> HIDE DEF row
<1>3. /\ tokens' \in [Token -> TokenRow] /\ tokens'[t] = row /\ \A u \in Token \ {t} : tokens'[u] = tokens[u]
  BY <1>1, <1>2 DEF TypeOK
<1>4. /\ storage.token # t /\ \A u \in Token : tokens[u].from # t
      /\ \A c \in Call : call[c].token # t
  BY <1>2, NoneIsNoToken DEF TypeOK
<1>5. QED
  BY <1>1, <1>2, <1>3, <1>4

-----------------------------------------------------------------------------
(* Steps of a call that issue no token.                                    *)

(* What the step of a call may do.                                         *)
CallMoves(c) ==
  LET old == call[c]  new == call'[c] IN
  /\ new.token # None => tokens[new.token].state # "none"
  /\ new.password <= password
  /\ new.pc \in {"granted", "find", "rotate", "renew", "renewed", "denied"} => new.token # None
  /\ new.pc \in {"granted", "renewed"} => old.pc \in {"granted", "renewed"} /\ new.token = old.token
  /\ new.pc = "find" => new.token = storage.token \/ (old.pc = "find" /\ new.token = old.token)
  /\ new.pc \in {"rotate", "renew"} =>
       /\ new.token = old.token
       /\ \/ old.pc \in {"rotate", "renew"}
          \/ /\ old.pc = "find" /\ tokens[old.token].state = "live"
             /\ "sameToken" \notin excused' => \A b \in Call \ {c} : call[b].pc = "rotate" => call[b].token # old.token
  /\ new.pc = "renew" => tokens'[new.token].state = "dead"
  /\ new.pc = "grant" => new.password = password \/ (old.pc = "grant" /\ new.password = old.password)
  /\ new.pc = "denied" /\ faults' = 0 => tokens'[new.token].state = "dead"
  /\ new.left => new.pc \in {"sent", "grant", "granted", "refused", "over"} \/ "pageLeft" \in excused'
  /\ old.pc \in {"rotate", "renew", "renewed", "denied"} /\ storage'.token = storage.token /\ storage.token # None =>
       new.pc \in {"rotate", "renew", "renewed", "denied"} \/ "pageLeft" \in excused'
  /\ \/ storage'.token \in {storage.token, None}
     \/ /\ old.pc \in {"granted", "renewed"} /\ storage'.token = old.token
        /\ new.pc \notin {"granted", "renewed"}

LEMMA CallKept ==
  ASSUME IInv, NEW c \in Call, call' \in [Call -> CallState], \A b \in Call \ {c} : call'[b] = call[b], CallMoves(c),
         storage' \in [token : Token \cup {None}, identity : BOOLEAN],
         tokens' \in [Token -> TokenRow], Aged,
         UNCHANGED <<password, verified, links, req, resetTo>>,
         excused \subseteq excused', excused' \subseteq Exception, faults' \in Nat, faults <= faults',
         RenewingIsWhole', SessionIsWhole'
  PROVE  TypeOK' /\ BrowserInv'
<1>1. /\ storage.token # None => tokens[storage.token].state # "none"
      /\ \A t \in Token : tokens[t].from # None => tokens[tokens[t].from].state # "none"
      /\ \A b \in Call : call[b].token # None => tokens[call[b].token].state # "none"
      /\ \A b \in Call : call[b] \in CallState
      /\ \A t \in Token : tokens[t] \in TokenRow
  BY DEF IInv, TypeOK
<1>2. \A b \in Call : HoldsToken(b) /\ HeldAlone(b)
  BY DEF IInv, BrowserInv
<1>3. storage'.token # None => tokens[storage'.token].state # "none"
  BY <1>1, <1>2 DEF CallMoves, HoldsToken
<1>4. TypeOK'
  <2>1. \A t \in Token : tokens[t].state # "none" => tokens'[t].state # "none"
    BY DEF Aged
  <2>2. \A t \in Token : tokens'[t].since <= password
    BY DEF Aged, IInv, TypeOK
  <2>3. \A b \in Call : call'[b].password <= password
    BY DEF CallMoves, IInv, TypeOK
  <2>4. \A b \in Call : call'[b].token # None => tokens[call'[b].token].state # "none"
    BY <1>1 DEF CallMoves
  <2>5. /\ storage'.token # None => tokens'[storage'.token].state # "none"
        /\ \A t \in Token : tokens'[t].from # None => tokens'[tokens'[t].from].state # "none"
        /\ \A b \in Call : call'[b].token # None => tokens'[call'[b].token].state # "none"
    BY <1>1, <1>3, <2>1, <2>4 DEF Aged, TokenRow, CallState
  <2>6. QED
    BY <2>2, <2>3, <2>5 DEF IInv, TypeOK
<1>5. SpentIsDead'
  <2>1. \A t \in Token : tokens[t].state = "dead" => tokens'[t].state = "dead"
    BY DEF Aged
  <2>2. \A t \in Token : tokens'[t].from # None => tokens'[tokens'[t].from].state = "dead"
    BY <1>1, <2>1 DEF IInv, BrowserInv, SpentIsDead, Aged, TokenRow
  <2>3. \A b \in Call : call'[b].pc = "renew" => tokens'[call'[b].token].state = "dead"
    BY <1>1, <1>2, <2>1 DEF IInv, BrowserInv, SpentIsDead, CallMoves, CallState, HoldsToken
  <2>4. QED
    BY <2>2, <2>3 DEF SpentIsDead
<1>6. RotatesAlone'
  <2> SUFFICES ASSUME "sameToken" \notin excused', NEW a \in Call, Rotating(a)'
               PROVE  /\ \A t \in Token : tokens[t].from # call'[a].token
                      /\ \A b \in Call \ {a} : Rotating(b)' => call'[b].token # call'[a].token
    BY DEF RotatesAlone, Aged
  <2>1. \A b \in Call : Rotating(b) =>
          /\ \A t \in Token : tokens[t].from # call[b].token
          /\ \A d \in Call \ {b} : Rotating(d) => call[d].token # call[b].token
    BY DEF IInv, BrowserInv, RotatesAlone
  <2>2. \A b \in Call : Rotating(b)' => call'[b].token = call[b].token
    BY DEF Rotating, CallMoves
  <2>3. Rotating(c)' /\ ~Rotating(c) =>
          /\ tokens[call[c].token].state = "live" /\ call[c].token # None
          /\ \A b \in Call \ {c} : Rotating(b) => call[b].token # call[c].token
    BY <1>2 DEF Rotating, CallMoves, IInv, BrowserInv, SpentIsDead, HoldsToken
  <2>4. Rotating(c)' /\ ~Rotating(c) => \A t \in Token : tokens[t].from # call[c].token
    BY <2>3 DEF IInv, BrowserInv, SpentIsDead
  <2>5. \A b \in Call : Rotating(b)' => Rotating(b) \/ b = c
    BY DEF Rotating
  <2>6. QED
    BY <2>1, <2>2, <2>3, <2>4, <2>5
<1>7. RotationIsSingle'
  BY DEF IInv, BrowserInv, RotationIsSingle, Aged
<1>8. IssuesAreRecent'
  <2> SUFFICES ASSUME {"issuing", "switched"} \cap excused' = {}, NEW b \in Call
               PROVE  /\ call'[b].pc = "grant" => call'[b].password >= resetTo
                      /\ Rotating(b)' => tokens'[call'[b].token].since >= resetTo
    BY DEF IssuesAreRecent
  <2>1. {"issuing", "switched"} \cap excused = {}
    OBVIOUS
  <2>2. /\ call[b].pc = "grant" => call[b].password >= resetTo
        /\ Rotating(b) => tokens[call[b].token].since >= resetTo
    BY <2>1 DEF IInv, BrowserInv, IssuesAreRecent
  <2>3. \A t \in Token : tokens[t].state = "live" => tokens[t].since >= resetTo
    BY <2>1 DEF IInv, BrowserInv, ResetEndsSessions
  <2>4. resetTo <= password /\ resetTo \in Nat /\ password \in Nat
    BY DEF IInv, TypeOK
  <2>5. call'[b].pc = "grant" => call'[b].password >= resetTo
    BY <2>2, <2>4 DEF CallMoves
  <2>6. ASSUME Rotating(b)' PROVE tokens'[call'[b].token].since >= resetTo
    <3>1. call'[b].token = call[b].token /\ (Rotating(b) \/ (call[b].pc = "find" /\ tokens[call[b].token].state = "live"))
      BY <2>6 DEF Rotating, CallMoves
    <3>2. call[b].token \in Token
      BY <1>1, <1>2, <3>1 DEF HoldsToken, Rotating, CallState
    <3>3. QED
      BY <2>2, <2>3, <3>1, <3>2 DEF Aged
  <2>7. QED
    BY <2>5, <2>6
<1>9. ResetEndsSessions'
  BY DEF IInv, BrowserInv, ResetEndsSessions, Aged
<1>10. LeftBehind'
  BY DEF IInv, BrowserInv, LeftBehind, CallMoves
<1>11. ASSUME NEW b \in Call PROVE HoldsToken(b)' /\ HeldAlone(b)'
  <2>1. HoldsToken(b)'
    BY <1>2 DEF HoldsToken, CallMoves
  <2>2. HeldAlone(b)'
    <3> SUFFICES ASSUME call'[b].pc \in {"granted", "renewed"}
                 PROVE  /\ storage'.token # call'[b].token
                        /\ \A t \in Token : tokens[t].from # call'[b].token
                        /\ \A d \in Call \ {b} : call'[d].pc \in {"find", "rotate", "renew", "granted", "renewed"} =>
                                                 call'[d].token # call'[b].token
      BY DEF HeldAlone, Aged
    <3>1. call[b].pc \in {"granted", "renewed"} /\ call'[b].token = call[b].token /\ call[b].token # None
      BY <1>2 DEF CallMoves, HoldsToken
    <3>2. HeldAlone(b)
      BY <1>2
    <3>3. \A d \in Call : call'[d].pc \in {"find", "rotate", "renew", "granted", "renewed"} =>
            \/ call'[d].token = storage.token
            \/ call'[d].token = call[d].token /\ call[d].pc \in {"find", "rotate", "renew", "granted", "renewed"}
      BY DEF CallMoves
    <3>4. storage'.token # call[b].token
      BY <3>1, <3>2 DEF CallMoves, HeldAlone
    <3>5. QED
      BY <3>1, <3>2, <3>3, <3>4 DEF HeldAlone
  <2>3. QED
    BY <2>1, <2>2
<1>12. StoredTokenIsUnspent'
  <2> SUFFICES ASSUME "pageLeft" \notin excused', NEW t \in Token, storage'.token # None, tokens[t].from = storage'.token
               PROVE  \E b \in Call : call'[b].pc \in {"rotate", "renew", "renewed", "denied"}
    BY DEF StoredTokenIsUnspent, Aged
  <2>1. storage'.token = storage.token
    BY <1>2 DEF CallMoves, HeldAlone
  <2>2. PICK b \in Call : call[b].pc \in {"rotate", "renew", "renewed", "denied"}
    BY <2>1 DEF IInv, BrowserInv, StoredTokenIsUnspent
  <2>3. QED
    BY <2>1, <2>2 DEF CallMoves
<1>13. DeniedIsDead'
  <2> SUFFICES ASSUME faults' = 0, NEW b \in Call, call'[b].pc = "denied"
               PROVE  tokens'[call'[b].token].state = "dead"
    BY DEF DeniedIsDead
  <2>1. faults = 0
    BY DEF IInv, TypeOK
  <2>2. CASE b = c
    BY <2>2 DEF CallMoves
  <2>3. CASE b # c
    BY <1>1, <1>2, <2>1, <2>3 DEF IInv, BrowserInv, DeniedIsDead, HoldsToken, CallState, Aged
  <2>4. QED
    BY <2>2, <2>3
<1>14. QED
  BY <1>4, <1>5, <1>6, <1>7, <1>8, <1>9, <1>10, <1>11, <1>12, <1>13 DEF BrowserInv

LEMMA WholeKept ==
  ASSUME IInv, NEW c \in Call, \A b \in Call \ {c} : call'[b] = call[b], storage' = storage, excused \subseteq excused',
         Renewing(c)' => Renewing(c) \/ storage.token # None
  PROVE  RenewingIsWhole' /\ SessionIsWhole'
<1>1. SessionIsWhole'
  BY DEF IInv, BrowserInv, SessionIsWhole
<1>2. \A b \in Call : Renewing(b)' => Renewing(b) \/ storage.token # None
  BY DEF Renewing
<1>3. RenewingIsWhole'
  BY <1>2 DEF IInv, BrowserInv, SessionIsWhole, RenewingIsWhole
<1>4. QED
  BY <1>1, <1>3

LEMMA LinksKept == ASSUME IInv, UNCHANGED <<links, req>>, excused \subseteq excused' PROVE LinksInv'
<1>1. {"sameLink", "linkKept"} \cap excused' = {} => {"sameLink", "linkKept"} \cap excused = {}
  OBVIOUS
<1>2. QED
  BY <1>1 DEF IInv, LinksInv, Opened

LEMMA SameAge == tokens' = tokens => Aged
  BY DEF Aged

(* Calls that only move: what the server answers, the form, the pages.     *)
LEMMA PlainKeeps ==
  ASSUME IInv, NEW c \in Call, call' \in [Call -> CallState], \A b \in Call \ {c} : call'[b] = call[b],
         UNCHANGED <<tokens, storage, excused, faults, password, verified, links, req, resetTo>>,
         call'[c].token \in {call[c].token, None, storage.token}, call'[c].password <= password,
         call'[c].pc \in {"sent", "refused", "over", "grant", "find"}, call[c].pc \in {"idle", "sent", "refused"},
         call'[c].pc = "grant" => call'[c].password = password,
         call'[c].pc = "find" => call'[c].token = storage.token /\ storage.token # None /\ ~call'[c].left
  PROVE  IInv'
<1>1. /\ storage.token # None => tokens[storage.token].state # "none"
      /\ call[c].token # None => tokens[call[c].token].state # "none"
      /\ tokens \in [Token -> TokenRow] /\ storage \in [token : Token \cup {None}, identity : BOOLEAN]
      /\ excused \subseteq Exception /\ faults \in Nat
  BY DEF IInv, TypeOK
<1>2. CallMoves(c)
  BY <1>1 DEF CallMoves
<1>3. RenewingIsWhole' /\ SessionIsWhole'
  BY WholeKept DEF Renewing
<1>4. TypeOK' /\ BrowserInv'
  BY <1>1, <1>2, <1>3, SameAge, CallKept
<1>5. QED
  BY <1>4, LinksKept DEF IInv

LEMMA SendKeeps ==
  ASSUME IInv, NEW c \in Call, SendData(c) \/ SendLogin(c)
  PROVE  IInv'
<1>1. call[c] \in CallState /\ password \in Nat \ {0} /\ call[c].password <= password
  BY DEF IInv, TypeOK
<1>2. call[c].pc = "idle" /\ UNCHANGED <<tokens, storage, excused, faults, password, verified, links, req, resetTo>>
  BY DEF SendData, SendLogin, At
<1>3. CASE SendData(c)
  <2>1. Goto(c, "sent") /\ "sent" \in CallLabel
    BY <1>3 DEF SendData, CallLabel
  <2>2. QED
    BY <1>1, <1>2, <2>1, Moved, PlainKeeps DEF IInv
<1>4. CASE SendLogin(c)
  <2>1. PICK p \in {password, password - 1} :
          Step(c, [call[c] EXCEPT !.pc = "sent", !.kind = "login", !.password = p])
    BY <1>4 DEF SendLogin
  <2> DEFINE new == [call[c] EXCEPT !.pc = "sent", !.kind = "login", !.password = p]
  <2>2. p \in Nat /\ p <= password
    BY <1>1, <2>1
  <2>3. new \in CallState /\ new.pc = "sent" /\ new.password = p /\ new.token = call[c].token
    BY <1>1, <2>2 DEF CallState, CallLabel
  <2>4. Step(c, new)
    BY <2>1
  <2> HIDE DEF new
  <2>5. /\ call' \in [Call -> CallState] /\ call'[c] = new /\ \A b \in Call \ {c} : call'[b] = call[b]
    BY <2>3, <2>4, Stepped DEF IInv
  <2>6. QED
    BY <1>2, <2>2, <2>3, <2>5, PlainKeeps
<1>5. QED
  BY <1>3, <1>4

LEMMA AnswerKeeps ==
  ASSUME IInv, NEW c \in Call, Authenticate(c) \/ Compare(c) \/ RefusedAgain(c)
  PROVE  IInv'
<1>1. call[c] \in CallState /\ call[c].password <= password /\ password \in Nat \ {0}
  BY DEF IInv, TypeOK
<1>2. /\ call[c].pc \in {"sent", "refused"}
      /\ UNCHANGED <<tokens, storage, excused, faults, password, verified, links, req, resetTo>>
  BY DEF Authenticate, Compare, RefusedAgain, At
<1>3. ASSUME NEW label \in {"refused", "grant"}, Goto(c, label), label = "grant" => call[c].password = password
      PROVE  IInv'
  <2>1. label \in CallLabel
    BY DEF CallLabel
  <2>2. QED
    BY <1>1, <1>2, <1>3, <2>1, Moved, PlainKeeps DEF IInv
<1>4. ASSUME End(c) PROVE IInv'
  <2>1. /\ call' \in [Call -> CallState] /\ \A b \in Call \ {c} : call'[b] = call[b]
        /\ call'[c].pc = "over" /\ call'[c].token = None /\ call'[c].password <= password
    BY <1>1, <1>4, Ended DEF IInv
  <2>2. QED
    BY <1>2, <2>1, PlainKeeps
<1>5. End(c) \/ Goto(c, "refused") \/ (Goto(c, "grant") /\ call[c].password = password)
  BY DEF Authenticate, Compare, RefusedAgain
<1>6. QED
  BY <1>3, <1>4, <1>5

LEMMA BeginRefreshKeeps ==
  ASSUME IInv, NEW c \in Call, BeginRefresh(c)
  PROVE  IInv'
<1>1. /\ call[c] \in CallState /\ call[c].password <= password /\ storage.token \in Token \cup {None}
  BY DEF IInv, TypeOK
<1>2. /\ call[c].pc = "refused" /\ ~call[c].left /\ storage.token # None
      /\ Step(c, [call[c] EXCEPT !.pc = "find", !.retry = TRUE, !.token = storage.token])
      /\ UNCHANGED <<tokens, storage, excused, faults, password, verified, links, req, resetTo>>
  BY DEF BeginRefresh, At
<1> DEFINE new == [call[c] EXCEPT !.pc = "find", !.retry = TRUE, !.token = storage.token]
<1>3. /\ new \in CallState /\ new.pc = "find" /\ new.token = storage.token /\ new.left = call[c].left
      /\ new.password = call[c].password
  BY <1>1 DEF CallState, CallLabel
<1>4. Step(c, new)
  BY <1>2
<1> HIDE DEF new
<1>5. /\ call' \in [Call -> CallState] /\ call'[c] = new /\ \A b \in Call \ {c} : call'[b] = call[b]
  BY <1>3, <1>4, Stepped DEF IInv
<1>6. QED
  BY <1>1, <1>2, <1>3, <1>5, PlainKeeps

LEMMA FindKeeps ==
  ASSUME IInv, NEW c \in Call, Find(c)
  PROVE  IInv'
<1>1. /\ call[c] \in CallState /\ call[c].password <= password
      /\ call[c].token # None => tokens[call[c].token].state # "none"
      /\ tokens \in [Token -> TokenRow] /\ storage \in [token : Token \cup {None}, identity : BOOLEAN]
      /\ excused \subseteq Exception /\ faults \in Nat
  BY DEF IInv, TypeOK
<1>2. call[c].pc = "find" /\ UNCHANGED <<storage, faults, password, verified, links, req, resetTo>>
  BY DEF Find, At
<1>3. call[c].token \in Token
  BY <1>1, <1>2 DEF IInv, BrowserInv, HoldsToken, CallState
<1>4. PICK label \in {"rotate", "denied"} :
        /\ Goto(c, label)
        /\ label = "rotate" => /\ tokens[call[c].token].state = "live" /\ tokens' = tokens
                               /\ Excuse("sameToken", \E b \in Call : call[b].pc = "rotate" /\ call[b].token = call[c].token)
        /\ label = "denied" => tokens' = Revoked({call[c].token}) /\ excused' = excused
  BY DEF Find
<1>5. label \in CallLabel
  BY <1>4 DEF CallLabel
<1>6. /\ call' \in [Call -> CallState] /\ \A b \in Call \ {c} : call'[b] = call[b]
      /\ call'[c].pc = label /\ call'[c].left = call[c].left /\ call'[c].token = call[c].token
      /\ call'[c].password = call[c].password
  BY <1>4, <1>5, Moved DEF IInv
<1>7. /\ excused \subseteq excused' /\ excused' \subseteq Exception
      /\ label = "rotate" /\ "sameToken" \notin excused' =>
           \A b \in Call \ {c} : call[b].pc = "rotate" => call[b].token # call[c].token
  BY <1>1, <1>4 DEF Excuse, Exception
<1>8. /\ tokens' \in [Token -> TokenRow] /\ Aged
      /\ label = "denied" => tokens'[call[c].token].state = "dead"
  <2>1. CASE label = "rotate"
    BY <1>1, <1>4, <2>1, SameAge
  <2>2. CASE label = "denied"
    <3>1. tokens' = Revoked({call[c].token}) /\ {call[c].token} \in SUBSET Token
      BY <1>3, <1>4, <2>2
    <3>2. tokens' \in [Token -> TokenRow] /\ Aged /\ tokens'[call[c].token].state # "live"
      BY <3>1, RevokedAges DEF IInv
    <3>3. tokens[call[c].token].state # "none"
      BY <1>1, <1>3, NoneIsNoToken
    <3>4. QED
      BY <1>1, <1>3, <3>2, <3>3 DEF Aged, TokenRow
  <2>3. QED
    BY <1>4, <2>1, <2>2
<1>9. call[c].left => "pageLeft" \in excused
  BY <1>2 DEF IInv, BrowserInv, LeftBehind
<1>10. CallMoves(c)
  BY <1>1, <1>2, <1>3, <1>4, <1>6, <1>7, <1>8, <1>9, NoneIsNoToken DEF CallMoves
<1>11. RenewingIsWhole' /\ SessionIsWhole'
  BY <1>2, <1>6, <1>7, WholeKept DEF Renewing
<1>12. TypeOK' /\ BrowserInv'
  BY <1>1, <1>2, <1>6, <1>7, <1>8, <1>10, <1>11, CallKept
<1>13. QED
  BY <1>2, <1>7, <1>12, LinksKept DEF IInv

LEMMA RotateKeeps ==
  ASSUME IInv, NEW c \in Call, Rotate(c)
  PROVE  IInv'
<1>1. /\ call[c] \in CallState /\ call[c].password <= password
      /\ call[c].token # None => tokens[call[c].token].state # "none"
      /\ tokens \in [Token -> TokenRow] /\ storage \in [token : Token \cup {None}, identity : BOOLEAN]
      /\ excused \subseteq Exception /\ faults \in Nat
  BY DEF IInv, TypeOK
<1>2. /\ call[c].pc = "rotate" /\ Goto(c, "renew") /\ tokens' = Revoked({call[c].token})
      /\ UNCHANGED <<storage, excused, faults, password, verified, links, req, resetTo>>
  BY DEF Rotate, At
<1>3. call[c].token \in Token /\ "renew" \in CallLabel
  BY <1>1, <1>2 DEF IInv, BrowserInv, HoldsToken, CallState, CallLabel
<1>4. /\ call' \in [Call -> CallState] /\ \A b \in Call \ {c} : call'[b] = call[b]
      /\ call'[c].pc = "renew" /\ call'[c].left = call[c].left /\ call'[c].token = call[c].token
      /\ call'[c].password = call[c].password
  BY <1>2, <1>3, Moved DEF IInv
<1>5. tokens' \in [Token -> TokenRow] /\ Aged /\ tokens'[call[c].token].state = "dead"
  <2>1. {call[c].token} \in SUBSET Token
    BY <1>3
  <2>2. tokens' \in [Token -> TokenRow] /\ Aged /\ tokens'[call[c].token].state # "live"
    BY <1>2, <2>1, RevokedAges DEF IInv
  <2>3. tokens[call[c].token].state # "none"
    BY <1>1, <1>3, NoneIsNoToken
  <2>4. QED
    BY <1>1, <1>3, <2>2, <2>3 DEF Aged, TokenRow
<1>6. call[c].left => "pageLeft" \in excused
  BY <1>2 DEF IInv, BrowserInv, LeftBehind
<1>7. CallMoves(c)
  BY <1>1, <1>2, <1>3, <1>4, <1>5, <1>6, NoneIsNoToken DEF CallMoves
<1>8. RenewingIsWhole' /\ SessionIsWhole'
  BY <1>2, <1>4, WholeKept DEF Renewing
<1>9. TypeOK' /\ BrowserInv'
  BY SMTT(30), <1>1, <1>2, <1>4, <1>5, <1>7, <1>8, CallKept
<1>10. QED
  BY <1>2, <1>9, LinksKept DEF IInv

LEMMA StoreKeeps ==
  ASSUME IInv, NEW c \in Call, StoreGranted(c) \/ StoreRenewed(c)
  PROVE  IInv'
<1>1. /\ call[c] \in CallState /\ call[c].password <= password /\ password \in Nat \ {0}
      /\ call[c].token # None => tokens[call[c].token].state # "none"
      /\ tokens \in [Token -> TokenRow] /\ storage \in [token : Token \cup {None}, identity : BOOLEAN]
      /\ excused \subseteq Exception /\ faults \in Nat
  BY DEF IInv, TypeOK
<1>2. /\ call[c].pc \in {"granted", "renewed"} /\ ~call[c].left
      /\ UNCHANGED <<tokens, excused, faults, password, verified, links, req, resetTo>>
  BY DEF StoreGranted, StoreRenewed, At
<1>3. /\ call' \in [Call -> CallState] /\ \A b \in Call \ {c} : call'[b] = call[b]
      /\ call'[c].pc \in {"sent", "over"} /\ ~call'[c].left /\ call'[c].token \in {call[c].token, None}
      /\ call'[c].password <= password
  <2>1. CASE StoreGranted(c)
    BY <1>1, <2>1, Ended DEF StoreGranted, IInv
  <2>2. CASE StoreRenewed(c)
    <3>1. Goto(c, "sent") /\ "sent" \in CallLabel
      BY <2>2 DEF StoreRenewed, CallLabel
    <3>2. QED
      BY <1>1, <1>2, <3>1, Moved DEF IInv
  <2>3. QED
    BY <2>1, <2>2
<1>4. /\ storage' \in [token : Token \cup {None}, identity : BOOLEAN] /\ storage'.token = call[c].token
      /\ storage'.identity = storage.identity \/ storage'.identity = TRUE
      /\ call[c].pc = "granted" => storage'.identity = TRUE
  <2>1. call[c].token \in Token \cup {None}
    BY <1>1 DEF CallState
  <2>2. CASE StoreGranted(c)
    BY <2>1, <2>2 DEF StoreGranted
  <2>3. CASE StoreRenewed(c)
    <3>1. call[c].pc = "renewed"
      BY <2>3 DEF StoreRenewed, At
    <3>2. QED
      BY <1>1, <2>1, <2>3, <3>1 DEF StoreRenewed
  <2>4. QED
    BY <2>2, <2>3
<1>5. HoldsToken(c) /\ HeldAlone(c)
  BY DEF IInv, BrowserInv
<1>6. CallMoves(c)
  BY <1>1, <1>2, <1>3, <1>4, <1>5, NoneIsNoToken DEF CallMoves, HoldsToken, HeldAlone
<1>7. SessionIsWhole'
  <2>1. "forgotten" \notin excused /\ call[c].pc = "renewed" => storage.identity
    BY <1>2 DEF IInv, BrowserInv, RenewingIsWhole, Renewing
  <2>2. QED
    BY <1>2, <1>4, <2>1 DEF SessionIsWhole
<1>8. RenewingIsWhole'
  <2>1. \A b \in Call : Renewing(b)' => Renewing(b)
    BY <1>3 DEF Renewing
  <2>2. QED
    BY <1>2, <1>4, <2>1 DEF RenewingIsWhole, IInv, BrowserInv
<1>9. TypeOK' /\ BrowserInv'
  <2>1. Aged
    BY <1>2, SameAge
  <2>2. QED
    BY <1>1, <1>2, <1>3, <1>4, <1>6, <1>7, <1>8, <2>1, CallKept
<1>10. QED
  BY <1>2, <1>9, LinksKept DEF IInv

LEMMA ForgetKeeps ==
  ASSUME IInv, NEW c \in Call, Forget(c)
  PROVE  IInv'
<1>1. /\ tokens \in [Token -> TokenRow] /\ storage \in [token : Token \cup {None}, identity : BOOLEAN]
      /\ excused \subseteq Exception /\ faults \in Nat
  BY DEF IInv, TypeOK
<1>2. /\ call[c].pc \in {"denied", "refused"} /\ storage' = [token |-> None, identity |-> FALSE] /\ End(c)
      /\ Excuse("forgotten", \E b \in Call \ {c} : Renewing(b))
      /\ UNCHANGED <<tokens, faults, password, verified, links, req, resetTo>>
  BY DEF Forget, At
<1>3. /\ call' \in [Call -> CallState] /\ \A b \in Call \ {c} : call'[b] = call[b]
      /\ call'[c].pc = "over" /\ ~call'[c].left /\ call'[c].token = None /\ call'[c].password <= password
  BY <1>2, Ended DEF IInv
<1>4. /\ excused \subseteq excused' /\ excused' \subseteq Exception
      /\ "forgotten" \notin excused' => \A b \in Call \ {c} : ~Renewing(b)
  BY <1>1, <1>2 DEF Excuse, Exception
<1>5. storage' \in [token : Token \cup {None}, identity : BOOLEAN] /\ storage'.token = None
  BY <1>2
<1>6. CallMoves(c)
  BY <1>2, <1>3, <1>5 DEF CallMoves
<1>7. SessionIsWhole'
  BY <1>5 DEF SessionIsWhole
<1>8. RenewingIsWhole'
  BY <1>3, <1>4 DEF RenewingIsWhole, Renewing
<1>9. TypeOK' /\ BrowserInv'
  <2>1. Aged
    BY <1>2, SameAge
  <2>2. QED
    BY <1>1, <1>2, <1>3, <1>4, <1>5, <1>6, <1>7, <1>8, <2>1, CallKept
<1>10. QED
  BY <1>2, <1>4, <1>9, LinksKept DEF IInv

LEMMA LeaveKeeps ==
  ASSUME IInv, NEW c \in Call, Leave(c)
  PROVE  IInv'
<1>1. /\ call[c] \in CallState /\ call[c].password <= password
      /\ call[c].token # None => tokens[call[c].token].state # "none"
      /\ tokens \in [Token -> TokenRow] /\ storage \in [token : Token \cup {None}, identity : BOOLEAN]
      /\ excused \subseteq Exception /\ faults \in Nat
  BY DEF IInv, TypeOK
<1>2. /\ InProgress(c) /\ ~call[c].left /\ Excuse("pageLeft", Renewing(c) \/ call[c].pc = "denied")
      /\ UNCHANGED <<tokens, storage, faults, password, verified, links, req, resetTo>>
  BY DEF Leave, server
<1>3. /\ call' \in [Call -> CallState] /\ \A b \in Call \ {c} : call'[b] = call[b]
      /\ \/ /\ call'[c].pc = "over" /\ ~call'[c].left /\ call'[c].token = None /\ call'[c].password <= password
         \/ /\ call'[c].pc \in {"sent", "grant", "find", "rotate", "renew"} /\ call'[c].pc = call[c].pc
            /\ call'[c].left /\ call'[c].token = call[c].token /\ call'[c].password = call[c].password
  <2>1. CASE AtServer(c)
    <3> DEFINE new == [call[c] EXCEPT !.left = TRUE]
    <3>1. /\ new \in CallState /\ new.pc = call[c].pc /\ new.left /\ new.token = call[c].token
          /\ new.password = call[c].password
      BY <1>1 DEF CallState
    <3>2. Step(c, new)
      BY <2>1 DEF Leave
    <3> HIDE DEF new
    <3>3. call' \in [Call -> CallState] /\ call'[c] = new /\ \A b \in Call \ {c} : call'[b] = call[b]
      BY <3>1, <3>2, Stepped DEF IInv
    <3>4. call[c].pc \in {"sent", "grant", "find", "rotate", "renew"}
      BY <2>1 DEF AtServer
    <3>5. QED
      BY <3>1, <3>3, <3>4
  <2>2. CASE ~AtServer(c)
    BY <2>2, Ended DEF Leave, IInv
  <2>3. QED
    BY <2>1, <2>2
<1>4. /\ excused \subseteq excused' /\ excused' \subseteq Exception
      /\ call[c].pc \in {"find", "rotate", "renew", "renewed", "denied"} => "pageLeft" \in excused'
  BY <1>1, <1>2 DEF Excuse, Exception, Renewing
<1>5. HoldsToken(c) /\ (call[c].pc = "renew" => tokens[call[c].token].state = "dead")
  BY DEF IInv, BrowserInv, SpentIsDead
<1>6. CallMoves(c)
  BY <1>1, <1>2, <1>3, <1>4, <1>5 DEF CallMoves, HoldsToken
<1>7. RenewingIsWhole' /\ SessionIsWhole'
  BY <1>2, <1>3, <1>4, WholeKept DEF Renewing
<1>8. TypeOK' /\ BrowserInv'
  <2>1. Aged
    BY <1>2, SameAge
  <2>2. QED
    BY <1>1, <1>2, <1>3, <1>4, <1>6, <1>7, <2>1, CallKept
<1>9. QED
  BY <1>2, <1>4, <1>8, LinksKept DEF IInv

LEMMA FaultKeeps ==
  ASSUME IInv, NEW c \in Call, Fault(c)
  PROVE  IInv'
<1>1. /\ call[c] \in CallState /\ call[c].password <= password
      /\ call[c].token # None => tokens[call[c].token].state # "none"
      /\ tokens \in [Token -> TokenRow] /\ storage \in [token : Token \cup {None}, identity : BOOLEAN]
      /\ excused \subseteq Exception /\ faults \in Nat
  BY DEF IInv, TypeOK
<1>2. /\ UNCHANGED <<tokens, storage, excused, password, verified, links, req, resetTo>>
      /\ faults' \in Nat /\ faults <= faults' /\ faults' # 0
      /\ \/ call[c].pc \in {"find", "rotate", "renew", "renewed"} /\ Goto(c, "denied")
         \/ call[c].pc \in {"sent", "grant", "granted"} /\ End(c)
  BY <1>1 DEF Fault, server
<1>3. /\ call' \in [Call -> CallState] /\ \A b \in Call \ {c} : call'[b] = call[b]
      /\ \/ /\ call'[c].pc = "over" /\ ~call'[c].left /\ call'[c].token = None /\ call'[c].password <= password
            /\ call[c].pc \in {"sent", "grant", "granted"}
         \/ /\ call'[c].pc = "denied" /\ call[c].pc \in {"find", "rotate", "renew", "renewed"}
            /\ call'[c].left = call[c].left /\ call'[c].token = call[c].token /\ call'[c].password = call[c].password
  <2>1. "denied" \in CallLabel
    BY DEF CallLabel
  <2>2. CASE Goto(c, "denied") /\ call[c].pc \in {"find", "rotate", "renew", "renewed"}
    BY <2>1, <2>2, Moved DEF IInv
  <2>3. CASE End(c) /\ call[c].pc \in {"sent", "grant", "granted"}
    BY <2>3, Ended DEF IInv
  <2>4. QED
    BY <1>2, <2>2, <2>3
<1>4. HoldsToken(c)
  BY DEF IInv, BrowserInv
<1>5. call[c].left /\ call[c].pc \in {"find", "rotate", "renew", "renewed"} => "pageLeft" \in excused
  BY DEF IInv, BrowserInv, LeftBehind
<1>6. CallMoves(c)
  BY <1>1, <1>2, <1>3, <1>4, <1>5 DEF CallMoves, HoldsToken
<1>7. RenewingIsWhole' /\ SessionIsWhole'
  BY <1>2, <1>3, WholeKept DEF Renewing
<1>8. TypeOK' /\ BrowserInv'
  <2>1. Aged
    BY <1>2, SameAge
  <2>2. QED
    BY <1>1, <1>2, <1>3, <1>6, <1>7, <2>1, CallKept
<1>9. QED
  BY <1>2, <1>8, LinksKept DEF IInv

LEMMA LogoutKeeps == ASSUME IInv, Logout PROVE IInv'
<1>1. /\ storage.token # None /\ storage' = [storage EXCEPT !.token = None]
      /\ UNCHANGED <<password, verified, tokens, links, call, req, resetTo, excused, faults>>
  BY DEF Logout, server
<1>2. /\ storage' \in [token : Token \cup {None}, identity : BOOLEAN]
      /\ storage'.token = None /\ storage'.identity = storage.identity
  BY <1>1 DEF IInv, TypeOK
<1>3. TypeOK'
  BY <1>1, <1>2 DEF IInv, TypeOK
<1>4. /\ SpentIsDead' /\ RotatesAlone' /\ RotationIsSingle' /\ IssuesAreRecent' /\ ResetEndsSessions'
      /\ LeftBehind' /\ DeniedIsDead'
  BY <1>1 DEF IInv, BrowserInv, SpentIsDead, RotatesAlone, RotationIsSingle, IssuesAreRecent, ResetEndsSessions,
              LeftBehind, DeniedIsDead, Rotating
<1>5. RenewingIsWhole' /\ SessionIsWhole' /\ StoredTokenIsUnspent'
  BY <1>1, <1>2 DEF IInv, BrowserInv, RenewingIsWhole, SessionIsWhole, StoredTokenIsUnspent, Renewing
<1>6. ASSUME NEW c \in Call PROVE HoldsToken(c)' /\ HeldAlone(c)'
  BY <1>1, <1>2 DEF IInv, BrowserInv, HoldsToken, HeldAlone
<1>7. LinksInv'
  BY <1>1, LinksKept
<1>8. QED
  BY <1>3, <1>4, <1>5, <1>6, <1>7 DEF IInv, BrowserInv

-----------------------------------------------------------------------------
(* Steps that issue a token.                                               *)

LEMMA IssuedKept ==
  ASSUME IInv, NEW c \in Call, call' \in [Call -> CallState], \A b \in Call \ {c} : call'[b] = call[b],
         NEW t \in Token, NEW since \in Nat, NEW from \in Token \cup {None}, Issue(t, since, from), since <= password,
         {"issuing", "switched"} \cap excused = {} => since >= resetTo,
         call'[c].token = t, call'[c].password = call[c].password, call'[c].left = call[c].left,
         \/ call[c].pc = "grant" /\ call'[c].pc = "granted" /\ from = None
         \/ call[c].pc = "renew" /\ call'[c].pc = "renewed" /\ from = call[c].token,
         UNCHANGED <<password, verified, links, storage, req, resetTo, excused, faults>>
  PROVE  IInv'
<1>1. /\ storage.token # None => tokens[storage.token].state # "none"
      /\ \A u \in Token : tokens[u].from # None => tokens[tokens[u].from].state # "none"
      /\ \A b \in Call : call[b].token # None => tokens[call[b].token].state # "none"
      /\ \A b \in Call : call[b] \in CallState /\ call[b].password <= password
      /\ \A u \in Token : tokens[u] \in TokenRow
  BY DEF IInv, TypeOK
<1>2. /\ tokens' \in [Token -> TokenRow] /\ tokens'[t].state = "live" /\ tokens'[t].since = since
      /\ tokens'[t].from = from /\ \A u \in Token \ {t} : tokens'[u] = tokens[u]
      /\ tokens[t].state = "none" /\ storage.token # t /\ \A u \in Token : tokens[u].from # t
      /\ \A b \in Call : call[b].token # t
  BY Issued DEF IInv
<1>3. t # None /\ from # t /\ \A u \in Token : tokens'[u].from # t
  BY <1>2, NoneIsNoToken
<1>4. \A b \in Call : HoldsToken(b) /\ HeldAlone(b)
  BY DEF IInv, BrowserInv
<1>5. from # None => from \in Token /\ tokens[from].state = "dead" /\ tokens'[from] = tokens[from] /\ Rotating(c)
  BY <1>2, <1>3 DEF IInv, BrowserInv, SpentIsDead, Rotating
<1>6. TypeOK'
  <2>1. /\ storage.token # None => tokens'[storage.token].state # "none"
        /\ \A u \in Token : tokens'[u].from # None => tokens'[tokens'[u].from].state # "none"
        /\ \A b \in Call : call'[b].token # None => tokens'[call'[b].token].state # "none"
    <3>1. \A u \in Token : tokens[u].state # "none" => tokens'[u] = tokens[u]
      BY <1>2
    <3>2. storage.token # None => tokens'[storage.token].state # "none"
      BY <1>1, <3>1 DEF IInv, TypeOK
    <3>3. \A u \in Token \ {t} : tokens'[u].from # None => tokens'[tokens'[u].from].state # "none"
      BY <1>1, <1>2, <3>1 DEF TokenRow
    <3>4. tokens'[t].from # None => tokens'[tokens'[t].from].state # "none"
      BY <1>2, <1>5
    <3>5. \A b \in Call \ {c} : call'[b].token # None => tokens'[call'[b].token].state # "none"
      BY <1>1, <3>1 DEF CallState
    <3>6. QED
      BY <1>2, <3>2, <3>3, <3>4, <3>5
  <2>2. \A u \in Token : tokens'[u].since <= password
    BY <1>2 DEF IInv, TypeOK
  <2>3. \A b \in Call : call'[b].password <= password
    BY <1>1
  <2>4. QED
    BY <1>2, <2>1, <2>2, <2>3 DEF IInv, TypeOK
<1>7. SpentIsDead'
  <2>1. \A u \in Token : tokens[u].state = "dead" => tokens'[u] = tokens[u]
    BY <1>2
  <2>2. \A u \in Token \ {t} : tokens'[u].from # None => tokens'[tokens'[u].from].state = "dead"
    BY <1>1, <1>2, <2>1 DEF IInv, BrowserInv, SpentIsDead, TokenRow
  <2>3. \A b \in Call \ {c} : call'[b].pc = "renew" => tokens'[call'[b].token].state = "dead"
    BY <1>1, <1>4, <2>1 DEF IInv, BrowserInv, SpentIsDead, HoldsToken, CallState
  <2>4. QED
    BY <1>2, <1>5, <2>2, <2>3 DEF SpentIsDead
<1>8. RotatesAlone'
  <2> SUFFICES ASSUME "sameToken" \notin excused, NEW a \in Call, Rotating(a)'
               PROVE  /\ \A u \in Token : tokens'[u].from # call'[a].token
                      /\ \A b \in Call \ {a} : Rotating(b)' => call'[b].token # call'[a].token
    BY DEF RotatesAlone
  <2>1. a # c /\ call'[a] = call[a] /\ Rotating(a) /\ call[a].token # None
    BY <1>4 DEF Rotating, HoldsToken
  <2>2. /\ \A u \in Token : tokens[u].from # call[a].token
        /\ \A b \in Call \ {a} : Rotating(b) => call[b].token # call[a].token
    BY <2>1 DEF IInv, BrowserInv, RotatesAlone
  <2>3. from # call[a].token
    BY <1>5, <2>1, <2>2
  <2>4. QED
    BY <1>2, <2>1, <2>2, <2>3 DEF Rotating
<1>9. RotationIsSingle'
  <2> SUFFICES ASSUME "sameToken" \notin excused, NEW u \in Token, NEW v \in Token,
                      tokens'[u].from # None, tokens'[u].from = tokens'[v].from
               PROVE  u = v
    BY DEF RotationIsSingle
  <2>1. from # None => \A w \in Token : tokens[w].from # from
    BY <1>5 DEF IInv, BrowserInv, RotatesAlone
  <2>2. QED
    BY <1>2, <2>1 DEF IInv, BrowserInv, RotationIsSingle
<1>10. IssuesAreRecent'
  <2> SUFFICES ASSUME {"issuing", "switched"} \cap excused = {}, NEW b \in Call
               PROVE  /\ call'[b].pc = "grant" => call'[b].password >= resetTo
                      /\ Rotating(b)' => tokens'[call'[b].token].since >= resetTo
    BY DEF IssuesAreRecent
  <2>1. call'[b].pc = "grant" \/ Rotating(b)' => b # c
    BY DEF Rotating
  <2>2. Rotating(b) => call[b].token \in Token \ {t}
    BY <1>1, <1>2, <1>4 DEF Rotating, HoldsToken, CallState
  <2>3. QED
    BY <1>2, <2>1, <2>2 DEF IInv, BrowserInv, IssuesAreRecent, Rotating
<1>11. ResetEndsSessions'
  BY <1>2 DEF IInv, BrowserInv, ResetEndsSessions
<1>12. RenewingIsWhole' /\ SessionIsWhole'
  BY WholeKept DEF Renewing
<1>13. LeftBehind'
  BY DEF IInv, BrowserInv, LeftBehind
<1>14. StoredTokenIsUnspent'
  <2> SUFFICES ASSUME "pageLeft" \notin excused, NEW u \in Token, storage.token # None, tokens'[u].from = storage.token
               PROVE  \E b \in Call : call'[b].pc \in {"rotate", "renew", "renewed", "denied"}
    BY DEF StoredTokenIsUnspent
  <2>1. CASE u = t
    BY <1>2, <2>1
  <2>2. CASE u # t
    <3>1. PICK b \in Call : call[b].pc \in {"rotate", "renew", "renewed", "denied"}
      BY <1>2, <2>2 DEF IInv, BrowserInv, StoredTokenIsUnspent
    <3>2. QED
      BY <3>1
  <2>3. QED
    BY <2>1, <2>2
<1>15. DeniedIsDead'
  <2> SUFFICES ASSUME faults = 0, NEW b \in Call, call'[b].pc = "denied"
               PROVE  tokens'[call'[b].token].state = "dead"
    BY DEF DeniedIsDead
  <2>1. b # c /\ call'[b] = call[b] /\ call[b].token \in Token \ {t}
    BY <1>1, <1>2, <1>4 DEF HoldsToken, CallState
  <2>2. QED
    BY <1>2, <2>1 DEF IInv, BrowserInv, DeniedIsDead
<1>16. ASSUME NEW b \in Call PROVE HoldsToken(b)' /\ HeldAlone(b)'
  <2>1. HoldsToken(b)'
    BY <1>3, <1>4 DEF HoldsToken
  <2>2. CASE b = c
    BY <1>2, <1>3, <2>1, <2>2 DEF HeldAlone
  <2>3. CASE b # c
    <3> SUFFICES ASSUME call[b].pc \in {"granted", "renewed"}
                 PROVE  /\ storage.token # call[b].token
                        /\ \A u \in Token : tokens'[u].from # call[b].token
                        /\ \A d \in Call \ {b} : call'[d].pc \in {"find", "rotate", "renew", "granted", "renewed"} =>
                                                 call'[d].token # call[b].token
      BY <2>1, <2>3 DEF HeldAlone
    <3>1. HeldAlone(b) /\ call[b].token # None
      BY <1>4 DEF HoldsToken
    <3>2. from # call[b].token
      BY <2>3, <3>1 DEF HeldAlone
    <3>3. QED
      BY <1>2, <3>1, <3>2 DEF HeldAlone
  <2>4. QED
    BY <2>2, <2>3
<1>17. LinksInv'
  BY LinksKept
<1>18. QED
  BY <1>6, <1>7, <1>8, <1>9, <1>10, <1>11, <1>12, <1>13, <1>14, <1>15, <1>16, <1>17 DEF IInv, BrowserInv

LEMMA GrantKeeps ==
  ASSUME IInv, NEW c \in Call, Grant(c) \/ Renew(c)
  PROVE  IInv'
<1>1. /\ call[c] \in CallState /\ call[c].password <= password
      /\ tokens \in [Token -> TokenRow] /\ \A u \in Token : tokens[u].since <= password
  BY DEF IInv, TypeOK
<1>2. UNCHANGED <<password, verified, links, storage, req, resetTo, excused, faults>>
  BY DEF Grant, Renew, At
<1>3. ASSUME NEW t \in Token, NEW label \in {"granted", "renewed"}, Step(c, [call[c] EXCEPT !.pc = label, !.token = t])
      PROVE  /\ call' \in [Call -> CallState] /\ \A b \in Call \ {c} : call'[b] = call[b]
             /\ call'[c].token = t /\ call'[c].password = call[c].password /\ call'[c].left = call[c].left
             /\ call'[c].pc = label
  <2> DEFINE new == [call[c] EXCEPT !.pc = label, !.token = t]
  <2>1. /\ new \in CallState /\ new.token = t /\ new.password = call[c].password /\ new.left = call[c].left
        /\ new.pc = label
    BY <1>1 DEF CallState, CallLabel
  <2>2. Step(c, new)
    BY <1>3
  <2> HIDE DEF new
  <2>3. QED
    BY <2>1, <2>2, Stepped DEF IInv
<1>4. CASE Grant(c)
  <2>1. PICK t \in Token : Issue(t, call[c].password, None) /\ Step(c, [call[c] EXCEPT !.pc = "granted", !.token = t])
    BY <1>4 DEF Grant
  <2>2. call[c].pc = "grant" /\ call[c].password \in Nat
    BY <1>1, <1>4 DEF Grant, At, CallState
  <2>3. {"issuing", "switched"} \cap excused = {} => call[c].password >= resetTo
    BY <2>2 DEF IInv, BrowserInv, IssuesAreRecent
  <2>4. QED
    BY <1>1, <1>2, <1>3, <2>1, <2>2, <2>3, IssuedKept
<1>5. CASE Renew(c)
  <2>1. PICK t \in Token : /\ Issue(t, tokens[call[c].token].since, call[c].token)
                           /\ Step(c, [call[c] EXCEPT !.pc = "renewed", !.token = t])
    BY <1>5 DEF Renew
  <2>2. call[c].pc = "renew"
    BY <1>5 DEF Renew, At
  <2>3. call[c].token \in Token
    BY <1>1, <2>2 DEF IInv, BrowserInv, HoldsToken, CallState
  <2>4. tokens[call[c].token].since \in Nat /\ tokens[call[c].token].since <= password
    BY <1>1, <2>3 DEF TokenRow
  <2>5. {"issuing", "switched"} \cap excused = {} => tokens[call[c].token].since >= resetTo
    BY <2>2 DEF IInv, BrowserInv, IssuesAreRecent, Rotating
  <2>6. QED
    BY <1>2, <1>3, <2>1, <2>2, <2>3, <2>4, <2>5, IssuedKept
<1>6. QED
  BY <1>4, <1>5

LEMMA ReqStepped ==
  ASSUME TypeOK, NEW r \in Request, NEW new \in RequestState, ReqStep(r, new)
  PROVE  req' \in [Request -> RequestState] /\ req'[r] = new /\ \A q \in Request \ {r} : req'[q] = req[q]
  BY DEF TypeOK, ReqStep

LEMMA ReqMoved ==
  ASSUME TypeOK, NEW r \in Request, NEW label \in RequestLabel, ReqGoto(r, label)
  PROVE  /\ req' \in [Request -> RequestState] /\ \A q \in Request \ {r} : req'[q] = req[q]
         /\ req'[r].pc = label /\ req'[r].link = req[r].link /\ req'[r].password = req[r].password
<1> DEFINE new == [req[r] EXCEPT !.pc = label]
<1>1. new \in RequestState /\ new.pc = label /\ new.link = req[r].link /\ new.password = req[r].password
  BY DEF TypeOK, RequestState
<1>2. ReqStep(r, new)
  BY DEF ReqGoto
<1> HIDE DEF new
<1>3. QED
  BY <1>1, <1>2, ReqStepped

(* A request that is done with its link, or never had one.                 *)
LEMMA LinksMoved ==
  ASSUME IInv, NEW r \in Request, \A q \in Request \ {r} : req'[q] = req[q], ~Opened(r)', links' = links,
         excused \subseteq excused', req[r].pc = "del" => "linkKept" \in excused'
  PROVE  LinksInv'
<1> SUFFICES ASSUME {"sameLink", "linkKept"} \cap excused' = {}
             PROVE  /\ \A l \in Link : \/ links[l].uses = 0
                                       \/ /\ links[l].uses = 1
                                          /\ \/ links[l].state = "gone"
                                             \/ \E q \in Request : req'[q].pc = "del" /\ req'[q].link = l
                    /\ \A p \in Request : Opened(p)' =>
                         /\ req'[p].pc = "update" => links[req'[p].link].uses = 0
                         /\ \A q \in Request \ {p} : Opened(q)' => req'[q].link # req'[p].link
  BY DEF LinksInv
<1>1. {"sameLink", "linkKept"} \cap excused = {} /\ req[r].pc # "del"
  OBVIOUS
<1>2. QED
  BY <1>1 DEF IInv, LinksInv, Opened

(* Nobody elsewhere touches the browser.                                   *)
LEMMA ElsewhereKept ==
  ASSUME IInv, TypeOK', tokens' \in [Token -> TokenRow], Aged, UNCHANGED <<storage, call>>, excused \subseteq excused',
         faults <= faults', faults' \in Nat,
         \/ resetTo' = resetTo
         \/ /\ \A t \in Token : tokens'[t].state # "live"
            /\ "issuing" \in excused' \/ ~Issuing
  PROVE  BrowserInv'
<1>1. /\ \A t \in Token : tokens[t] \in TokenRow
      /\ \A c \in Call : call[c] \in CallState
      /\ faults \in Nat
  BY DEF IInv, TypeOK
<1>2. \A c \in Call : HoldsToken(c)
  BY DEF IInv, BrowserInv
<1>3. SpentIsDead'
  <2>1. \A t \in Token : tokens[t].state = "dead" => tokens'[t].state = "dead"
    BY DEF Aged
  <2>2. \A t \in Token : tokens'[t].from # None => tokens'[tokens'[t].from].state = "dead"
    BY <1>1, <2>1 DEF IInv, BrowserInv, SpentIsDead, Aged, TokenRow
  <2>3. \A c \in Call : call[c].pc = "renew" => tokens'[call[c].token].state = "dead"
    BY <1>1, <1>2, <2>1 DEF IInv, BrowserInv, SpentIsDead, CallState, HoldsToken
  <2>4. QED
    BY <2>2, <2>3 DEF SpentIsDead
<1>4. RotatesAlone' /\ RotationIsSingle'
  BY DEF IInv, BrowserInv, RotatesAlone, RotationIsSingle, Rotating, Aged
<1>5. IssuesAreRecent' /\ ResetEndsSessions'
  <2>1. CASE resetTo' = resetTo
    <3>1. \A c \in Call : Rotating(c) => tokens'[call[c].token].since = tokens[call[c].token].since
      BY <1>1, <1>2 DEF Rotating, HoldsToken, CallState, Aged
    <3>2. QED
      BY <2>1, <3>1 DEF IInv, BrowserInv, IssuesAreRecent, ResetEndsSessions, Rotating, Aged
  <2>2. CASE (\A t \in Token : tokens'[t].state # "live") /\ ("issuing" \in excused' \/ ~Issuing)
    <3>1. "issuing" \in excused' \/ \A c \in Call : call[c].pc \notin {"grant", "rotate", "renew"}
      BY <2>2 DEF Issuing
    <3>2. QED
      BY <2>2, <3>1 DEF IssuesAreRecent, ResetEndsSessions, Rotating
  <2>3. QED
    BY <2>1, <2>2
<1>6. RenewingIsWhole' /\ SessionIsWhole' /\ LeftBehind'
  BY DEF IInv, BrowserInv, RenewingIsWhole, SessionIsWhole, LeftBehind, Renewing
<1>7. StoredTokenIsUnspent'
  BY DEF IInv, BrowserInv, StoredTokenIsUnspent, Aged
<1>8. DeniedIsDead'
  <2> SUFFICES ASSUME faults' = 0, NEW c \in Call, call[c].pc = "denied" PROVE tokens'[call[c].token].state = "dead"
    BY DEF DeniedIsDead
  <2>1. call[c].token \in Token /\ faults = 0
    BY <1>1, <1>2 DEF HoldsToken, CallState
  <2>2. QED
    BY <2>1 DEF IInv, BrowserInv, DeniedIsDead, Aged
<1>9. ASSUME NEW c \in Call PROVE HoldsToken(c)' /\ HeldAlone(c)'
  BY DEF IInv, BrowserInv, HoldsToken, HeldAlone, Aged
<1>10. QED
  BY <1>3, <1>4, <1>5, <1>6, <1>7, <1>8, <1>9 DEF BrowserInv

LEMMA MailKeeps ==
  ASSUME IInv, NEW l \in Link, Mail(l)
  PROVE  IInv'
<1>1. /\ links[l].state = "none" /\ links' = [links EXCEPT ![l].state = "live"]
      /\ UNCHANGED <<password, verified, tokens, storage, call, req, resetTo, excused, faults>>
  BY DEF Mail
<1>2. /\ links' \in [Link -> [state : {"none", "live", "gone"}, uses : Nat]]
      /\ \A k \in Link : links'[k].uses = links[k].uses /\ (k # l => links'[k].state = links[k].state)
  BY <1>1 DEF IInv, TypeOK
<1>3. TypeOK'
  BY <1>1, <1>2 DEF IInv, TypeOK
<1>4. BrowserInv'
  BY <1>1, <1>3, SameAge, ElsewhereKept DEF IInv, TypeOK
<1>5. LinksInv'
  BY <1>1, <1>2 DEF IInv, TypeOK, RequestState, LinksInv, Opened
<1>6. QED
  BY <1>3, <1>4, <1>5 DEF IInv

LEMMA OpenLinkKeeps ==
  ASSUME IInv, NEW r \in Request, NEW l \in Link, OpenLink(r, l)
  PROVE  IInv'
<1>1. /\ req[r].pc = "idle" /\ links[l].state = "live" /\ ReqStep(r, [req[r] EXCEPT !.pc = "update", !.link = l])
      /\ Excuse("sameLink", \E q \in Request : req[q].link = l /\ req[q].pc \in {"update", "del"})
      /\ UNCHANGED <<password, verified, tokens, links, storage, call, resetTo, faults>>
  BY DEF OpenLink, ReqAt, server
<1> DEFINE new == [req[r] EXCEPT !.pc = "update", !.link = l]
<1>2. new \in RequestState /\ new.pc = "update" /\ new.link = l /\ new.password = req[r].password
  BY DEF IInv, TypeOK, RequestState, RequestLabel
<1>3. ReqStep(r, new)
  BY <1>1
<1> HIDE DEF new
<1>4. req' \in [Request -> RequestState] /\ req'[r] = new /\ \A q \in Request \ {r} : req'[q] = req[q]
  BY <1>2, <1>3, ReqStepped DEF IInv
<1>5. /\ excused \subseteq excused' /\ excused' \subseteq Exception
      /\ "sameLink" \notin excused' => \A q \in Request : Opened(q) => req[q].link # l
  BY <1>1 DEF IInv, TypeOK, Excuse, Exception, Opened
<1>6. TypeOK'
  BY <1>1, <1>2, <1>4, <1>5 DEF IInv, TypeOK
<1>7. BrowserInv'
  BY <1>1, <1>5, <1>6, SameAge, ElsewhereKept DEF IInv, TypeOK
<1>8. LinksInv'
  <2> SUFFICES ASSUME {"sameLink", "linkKept"} \cap excused' = {}
               PROVE  /\ \A k \in Link : \/ links[k].uses = 0
                                         \/ /\ links[k].uses = 1
                                            /\ \/ links[k].state = "gone"
                                               \/ \E q \in Request : req'[q].pc = "del" /\ req'[q].link = k
                      /\ \A p \in Request : Opened(p)' =>
                           /\ req'[p].pc = "update" => links[req'[p].link].uses = 0
                           /\ \A q \in Request \ {p} : Opened(q)' => req'[q].link # req'[p].link
    BY <1>1 DEF LinksInv
  <2>1. {"sameLink", "linkKept"} \cap excused = {} /\ \A q \in Request : Opened(q) => req[q].link # l
    BY <1>5
  <2>2. links[l].uses = 0
    BY <1>1, <2>1 DEF IInv, LinksInv, Opened
  <2>3. \A q \in Request : q # r => (Opened(q)' <=> Opened(q))
    BY <1>4 DEF Opened
  <2>4. QED
    BY <1>1, <1>2, <1>4, <2>1, <2>2, <2>3 DEF IInv, LinksInv, Opened
<1>9. QED
  BY <1>6, <1>7, <1>8 DEF IInv

LEMMA UpdateUserKeeps ==
  ASSUME IInv, NEW r \in Request, UpdateUser(r)
  PROVE  IInv'
<1> DEFINE l == req[r].link
<1>1. /\ req[r].pc = "update" /\ links' = [links EXCEPT ![l].uses = @ + 1]
      /\ password' \in {password, password + 1} /\ verified' \in {verified, TRUE}
      /\ ReqStep(r, [req[r] EXCEPT !.pc = "del", !.password = password'])
      /\ UNCHANGED <<tokens, storage, call, resetTo, excused, faults>>
  BY DEF UpdateUser, ReqAt
<1>2. req[r] \in RequestState /\ l \in Link /\ password \in Nat \ {0} /\ links \in [Link -> [state : {"none", "live", "gone"}, uses : Nat]]
  BY DEF IInv, TypeOK, RequestState
<1>3. password' \in Nat \ {0} /\ password <= password'
  BY <1>1, <1>2
<1>4. /\ req' \in [Request -> RequestState] /\ \A q \in Request \ {r} : req'[q] = req[q]
      /\ req'[r].pc = "del" /\ req'[r].link = l /\ req'[r].password = password'
  <2> DEFINE new == [req[r] EXCEPT !.pc = "del", !.password = password']
  <2>1. new \in RequestState /\ new.pc = "del" /\ new.link = l /\ new.password = password'
    BY <1>2, <1>3 DEF RequestState, RequestLabel
  <2>2. ReqStep(r, new)
    BY <1>1
  <2> HIDE DEF new
  <2>3. QED
    BY <2>1, <2>2, ReqStepped DEF IInv
<1>5. /\ links' \in [Link -> [state : {"none", "live", "gone"}, uses : Nat]]
      /\ \A k \in Link : links'[k].state = links[k].state /\ (k # l => links'[k].uses = links[k].uses)
      /\ links'[l].uses = links[l].uses + 1
  BY <1>1, <1>2
<1>6. TypeOK'
  <2>1. /\ \A t \in Token : tokens[t].since <= password'
        /\ \A c \in Call : call[c].password <= password'
        /\ \A q \in Request : req'[q].password <= password'
    <3>1. \A n \in Nat : n <= password => n <= password'
      BY <1>2, <1>3
    <3>2. \A t \in Token : tokens[t].since <= password'
      BY <3>1 DEF IInv, TypeOK, TokenRow
    <3>3. \A c \in Call : call[c].password <= password'
      BY <3>1 DEF IInv, TypeOK, CallState
    <3>4. \A q \in Request \ {r} : req'[q].password <= password'
      BY <1>4, <3>1 DEF IInv, TypeOK, RequestState
    <3>5. password' <= password'
      BY <1>3
    <3>6. QED
      BY <1>4, <3>2, <3>3, <3>4, <3>5
  <2>2. resetTo \in 0..password'
    BY <1>3 DEF IInv, TypeOK
  <2>3. verified' \in BOOLEAN
    BY <1>1 DEF IInv, TypeOK
  <2>4. QED
    BY <1>1, <1>3, <1>4, <1>5, <2>1, <2>2, <2>3 DEF IInv, TypeOK
<1>7. BrowserInv'
  BY <1>1, <1>6, SameAge, ElsewhereKept DEF IInv, TypeOK
<1>8. LinksInv'
  <2> SUFFICES ASSUME {"sameLink", "linkKept"} \cap excused = {}
               PROVE  /\ \A k \in Link : \/ links'[k].uses = 0
                                         \/ /\ links'[k].uses = 1
                                            /\ \/ links'[k].state = "gone"
                                               \/ \E q \in Request : req'[q].pc = "del" /\ req'[q].link = k
                      /\ \A p \in Request : Opened(p)' =>
                           /\ req'[p].pc = "update" => links'[req'[p].link].uses = 0
                           /\ \A q \in Request \ {p} : Opened(q)' => req'[q].link # req'[p].link
    BY <1>1 DEF LinksInv
  <2>1. \A q \in Request : /\ Opened(q)' <=> Opened(q)
                           /\ req'[q].link = req[q].link
                           /\ req[q].pc = "del" => req'[q].pc = "del"
    BY <1>1, <1>4 DEF Opened
  <2>2. links[l].uses = 0 /\ Opened(r) /\ \A q \in Request \ {r} : Opened(q) => req[q].link # l
    BY <1>1 DEF IInv, LinksInv, Opened
  <2>3. ASSUME NEW k \in Link
        PROVE  \/ links'[k].uses = 0
               \/ /\ links'[k].uses = 1
                  /\ links'[k].state = "gone" \/ \E q \in Request : req'[q].pc = "del" /\ req'[q].link = k
    <3>1. CASE k = l
      BY <1>4, <1>5, <2>2, <3>1
    <3>2. CASE k # l
      BY <1>5, <2>1, <3>2 DEF IInv, LinksInv
    <3>3. QED
      BY <3>1, <3>2
  <2>4. ASSUME NEW p \in Request, Opened(p)'
        PROVE  /\ req'[p].pc = "update" => links'[req'[p].link].uses = 0
               /\ \A q \in Request \ {p} : Opened(q)' => req'[q].link # req'[p].link
    <3>1. Opened(p) /\ \A q \in Request \ {p} : Opened(q) => req[q].link # req[p].link
      BY <2>1, <2>4 DEF IInv, LinksInv
    <3>2. req'[p].pc = "update" => p # r /\ req[p].pc = "update" /\ links[req[p].link].uses = 0
      BY <1>4, <2>4 DEF IInv, LinksInv, Opened
    <3>3. req[p].link \in Link
      BY DEF IInv, TypeOK, RequestState
    <3>4. QED
      BY <1>5, <2>1, <2>2, <3>1, <3>2, <3>3
  <2>5. QED
    BY <2>3, <2>4
<1>9. QED
  BY <1>6, <1>7, <1>8 DEF IInv

LEMMA DeleteLinkKeeps ==
  ASSUME IInv, NEW r \in Request, DeleteLink(r)
  PROVE  IInv'
<1> DEFINE l == req[r].link
<1>1. /\ req[r].pc = "del" /\ links' = [links EXCEPT ![l].state = "gone"] /\ ReqGoto(r, AfterDelete(r))
      /\ UNCHANGED <<password, verified, tokens, storage, call, resetTo, excused, faults>>
  BY DEF DeleteLink, ReqAt
<1>2. AfterDelete(r) \in {"revoke", "over"} /\ AfterDelete(r) \in RequestLabel
  BY DEF AfterDelete, RequestLabel
<1>3. /\ req' \in [Request -> RequestState] /\ \A q \in Request \ {r} : req'[q] = req[q]
      /\ req'[r].pc \in {"revoke", "over"} /\ req'[r].link = l /\ req'[r].password = req[r].password
  BY <1>1, <1>2, ReqMoved DEF IInv
<1>4. req[r] \in RequestState /\ l \in Link /\ links \in [Link -> [state : {"none", "live", "gone"}, uses : Nat]]
  BY DEF IInv, TypeOK, RequestState
<1>5. /\ links' \in [Link -> [state : {"none", "live", "gone"}, uses : Nat]]
      /\ \A k \in Link : links'[k].uses = links[k].uses /\ (k # l => links'[k].state = links[k].state)
      /\ links'[l].state = "gone"
  BY <1>1, <1>4
<1>6. TypeOK'
  BY <1>1, <1>3, <1>5 DEF IInv, TypeOK
<1>7. BrowserInv'
  BY <1>1, <1>6, SameAge, ElsewhereKept DEF IInv, TypeOK
<1>8. LinksInv'
  <2> SUFFICES ASSUME {"sameLink", "linkKept"} \cap excused = {}
               PROVE  /\ \A k \in Link : \/ links'[k].uses = 0
                                         \/ /\ links'[k].uses = 1
                                            /\ \/ links'[k].state = "gone"
                                               \/ \E q \in Request : req'[q].pc = "del" /\ req'[q].link = k
                      /\ \A p \in Request : Opened(p)' =>
                           /\ req'[p].pc = "update" => links'[req'[p].link].uses = 0
                           /\ \A q \in Request \ {p} : Opened(q)' => req'[q].link # req'[p].link
    BY <1>1 DEF LinksInv
  <2>1. \A q \in Request : Opened(q)' => q # r /\ Opened(q) /\ req'[q] = req[q] /\ req[q].link \in Link
    BY <1>3 DEF Opened, IInv, TypeOK, RequestState
  <2>2. ASSUME NEW k \in Link
        PROVE  \/ links'[k].uses = 0
               \/ /\ links'[k].uses = 1
                  /\ links'[k].state = "gone" \/ \E q \in Request : req'[q].pc = "del" /\ req'[q].link = k
    BY <1>3, <1>5 DEF IInv, LinksInv
  <2>3. QED
    BY <1>5, <2>1, <2>2 DEF IInv, LinksInv
<1>9. QED
  BY <1>6, <1>7, <1>8 DEF IInv

LEMMA RevokeAllKeeps ==
  ASSUME IInv, NEW r \in Request, RevokeAll(r)
  PROVE  IInv'
<1>1. /\ req[r].pc = "revoke" /\ ReqGoto(r, "over") /\ tokens' = Revoked(Token)
      /\ resetTo' = IF req[r].password > resetTo THEN req[r].password ELSE resetTo
      /\ Excuse("issuing", Issuing)
      /\ UNCHANGED <<password, verified, links, storage, call, faults>>
  BY DEF RevokeAll, EndReset, ReqAt
<1>2. "over" \in RequestLabel
  BY DEF RequestLabel
<1>3. /\ req' \in [Request -> RequestState] /\ \A q \in Request \ {r} : req'[q] = req[q]
      /\ req'[r].pc = "over" /\ req'[r].password = req[r].password
  BY <1>1, <1>2, ReqMoved DEF IInv
<1>4. /\ excused \subseteq excused' /\ excused' \subseteq Exception /\ ("issuing" \in excused' \/ ~Issuing)
  BY <1>1 DEF IInv, TypeOK, Excuse, Exception
<1>5. tokens' \in [Token -> TokenRow] /\ Aged /\ \A t \in Token : tokens'[t].state # "live"
  BY <1>1, RevokedAges DEF IInv
<1>6. TypeOK'
  <2>1. resetTo' \in 0..password
    BY <1>1 DEF IInv, TypeOK, RequestState
  <2>2. /\ storage.token # None => tokens'[storage.token].state # "none"
        /\ \A t \in Token : tokens'[t].from # None => tokens'[tokens'[t].from].state # "none"
        /\ \A c \in Call : call[c].token # None => tokens'[call[c].token].state # "none"
    BY <1>5 DEF IInv, TypeOK, Aged, TokenRow, CallState
  <2>3. \A q \in Request : req'[q].password <= password
    BY <1>3 DEF IInv, TypeOK
  <2>4. \A t \in Token : tokens'[t].since <= password
    BY <1>5 DEF IInv, TypeOK, Aged
  <2>5. QED
    BY <1>1, <1>3, <1>4, <1>5, <2>1, <2>2, <2>3, <2>4 DEF IInv, TypeOK
<1>7. BrowserInv'
  BY <1>1, <1>4, <1>5, <1>6, ElsewhereKept DEF IInv, TypeOK
<1>8. LinksInv'
  BY <1>1, <1>3, <1>4, LinksMoved DEF Opened
<1>9. QED
  BY <1>6, <1>7, <1>8 DEF IInv

LEMMA changePasswordKeeps ==
  ASSUME IInv, NEW r \in Request, changePassword(r)
  PROVE  IInv'
<1>1. /\ req[r].pc = "idle" /\ ReqGoto(r, "over") /\ password' = password + 1
      /\ UNCHANGED <<verified, tokens, links, storage, call, resetTo, excused, faults>>
  BY DEF changePassword, ReqAt
<1>2. "over" \in RequestLabel
  BY DEF RequestLabel
<1>3. /\ req' \in [Request -> RequestState] /\ \A q \in Request \ {r} : req'[q] = req[q]
      /\ req'[r].pc = "over" /\ req'[r].password = req[r].password
  BY <1>1, <1>2, ReqMoved DEF IInv
<1>4. TypeOK'
  <2>1. password' \in Nat \ {0} /\ resetTo \in 0..password'
    BY <1>1 DEF IInv, TypeOK
  <2>2. /\ \A t \in Token : tokens[t].since <= password'
        /\ \A c \in Call : call[c].password <= password'
        /\ \A q \in Request : req'[q].password <= password'
    BY <1>1, <1>3 DEF IInv, TypeOK, TokenRow, CallState, RequestState
  <2>3. QED
    BY <1>1, <1>3, <2>1, <2>2 DEF IInv, TypeOK
<1>5. BrowserInv'
  BY <1>1, <1>4, SameAge, ElsewhereKept DEF IInv, TypeOK
<1>6. LinksInv'
  BY <1>1, <1>3, LinksMoved DEF Opened
<1>7. QED
  BY <1>4, <1>5, <1>6 DEF IInv

LEMMA logoutKeeps ==
  ASSUME IInv, NEW r \in Request, logout(r)
  PROVE  IInv'
<1>1. /\ req[r].pc = "idle" /\ ReqGoto(r, "over")
      /\ UNCHANGED <<password, verified, links, storage, call, resetTo, excused, faults>>
  BY DEF logout, ReqAt
<1>2. PICK kill \in SUBSET Token : tokens' = Revoked(kill)
  BY DEF logout
<1>3. tokens' \in [Token -> TokenRow] /\ Aged
  BY <1>2, RevokedAges DEF IInv
<1>4. "over" \in RequestLabel
  BY DEF RequestLabel
<1>5. /\ req' \in [Request -> RequestState] /\ \A q \in Request \ {r} : req'[q] = req[q]
      /\ req'[r].pc = "over" /\ req'[r].password = req[r].password
  BY <1>1, <1>4, ReqMoved DEF IInv
<1>6. TypeOK'
  <2>1. /\ storage.token # None => tokens'[storage.token].state # "none"
        /\ \A t \in Token : tokens'[t].from # None => tokens'[tokens'[t].from].state # "none"
        /\ \A c \in Call : call[c].token # None => tokens'[call[c].token].state # "none"
    BY <1>3 DEF IInv, TypeOK, Aged, TokenRow, CallState
  <2>2. \A q \in Request : req'[q].password <= password
    BY <1>5 DEF IInv, TypeOK
  <2>3. \A t \in Token : tokens'[t].since <= password
    BY <1>3 DEF IInv, TypeOK, Aged
  <2>4. QED
    BY <1>1, <1>3, <1>5, <2>1, <2>2, <2>3 DEF IInv, TypeOK
<1>7. BrowserInv'
  BY <1>1, <1>3, <1>6, ElsewhereKept DEF IInv, TypeOK
<1>8. LinksInv'
  BY <1>1, <1>5, LinksMoved DEF Opened
<1>9. QED
  BY <1>6, <1>7, <1>8 DEF IInv

LEMMA RejectKeeps ==
  ASSUME IInv, NEW r \in Request, Reject(r)
  PROVE  IInv'
<1>1. /\ ReqGoto(r, "over") /\ faults' = faults + 1 /\ Excuse("linkKept", req[r].pc = "del")
      /\ UNCHANGED <<password, verified, tokens, links, storage, call, resetTo>>
  BY DEF Reject, server
<1>2. "over" \in RequestLabel /\ faults' \in Nat /\ faults <= faults'
  BY <1>1 DEF RequestLabel, IInv, TypeOK
<1>3. /\ req' \in [Request -> RequestState] /\ \A q \in Request \ {r} : req'[q] = req[q]
      /\ req'[r].pc = "over" /\ req'[r].password = req[r].password
  BY <1>1, <1>2, ReqMoved DEF IInv
<1>4. excused \subseteq excused' /\ excused' \subseteq Exception /\ (req[r].pc = "del" => "linkKept" \in excused')
  BY <1>1 DEF IInv, TypeOK, Excuse, Exception
<1>5. TypeOK'
  BY <1>1, <1>2, <1>3, <1>4 DEF IInv, TypeOK
<1>6. BrowserInv'
  BY <1>1, <1>2, <1>4, <1>5, SameAge, ElsewhereKept DEF IInv, TypeOK
<1>7. LinksInv'
  BY <1>1, <1>3, <1>4, LinksMoved DEF Opened
<1>8. QED
  BY <1>5, <1>6, <1>7 DEF IInv

LEMMA switchOrganizationKeeps ==
  ASSUME IInv, NEW r \in Request, NEW s \in Token, switchOrganization(r, s)
  PROVE  IInv'
<1>1. /\ req[r].pc = "idle" /\ ReqGoto(r, "over") /\ tokens[s].state # "none"
      /\ Excuse("switched", tokens[s].since < password)
      /\ UNCHANGED <<password, verified, links, storage, call, resetTo, faults>>
  BY DEF switchOrganization, ReqAt
<1>2. PICK t \in Token : Issue(t, tokens[s].since, None)
  BY DEF switchOrganization
<1>3. "over" \in RequestLabel
  BY DEF RequestLabel
<1>4. /\ req' \in [Request -> RequestState] /\ \A q \in Request \ {r} : req'[q] = req[q]
      /\ req'[r].pc = "over" /\ req'[r].password = req[r].password
  BY <1>1, <1>3, ReqMoved DEF IInv
<1>5. /\ storage.token # None => tokens[storage.token].state # "none"
      /\ \A u \in Token : tokens[u].from # None => tokens[tokens[u].from].state # "none"
      /\ \A b \in Call : call[b].token # None => tokens[call[b].token].state # "none"
      /\ \A b \in Call : call[b] \in CallState
      /\ \A u \in Token : tokens[u] \in TokenRow /\ tokens[u].since <= password
      /\ resetTo <= password /\ resetTo \in Nat /\ password \in Nat /\ storage.token \in Token \cup {None}
  BY DEF IInv, TypeOK
<1>6. /\ excused \subseteq excused' /\ excused' \subseteq Exception
      /\ "switched" \in excused' \/ ~(tokens[s].since < password)
  BY <1>1 DEF IInv, TypeOK, Excuse, Exception
<1>7. {"issuing", "switched"} \cap excused' = {} => tokens[s].since >= resetTo
  BY <1>5, <1>6 DEF TokenRow
<1>8. /\ tokens' \in [Token -> TokenRow] /\ tokens'[t].state = "live" /\ tokens'[t].since = tokens[s].since
      /\ tokens'[t].from = None /\ \A u \in Token \ {t} : tokens'[u] = tokens[u]
      /\ tokens[t].state = "none" /\ storage.token # t /\ \A u \in Token : tokens[u].from # t
      /\ \A b \in Call : call[b].token # t
  <2>1. tokens[s].since \in Nat /\ None \in Token \cup {None}
    BY <1>5 DEF TokenRow
  <2>2. QED
    BY <1>2, <2>1, Issued DEF IInv
<1>9. \A b \in Call : HoldsToken(b) /\ HeldAlone(b)
  BY DEF IInv, BrowserInv
<1>10. \A u \in Token : tokens[u].state # "none" => tokens'[u] = tokens[u]
  BY <1>8
<1>11. TypeOK'
  <2>1. storage.token # None => tokens'[storage.token].state # "none"
    BY <1>5, <1>10
  <2>2. \A u \in Token : tokens'[u].from # None => tokens'[tokens'[u].from].state # "none"
    BY <1>5, <1>8, <1>10 DEF TokenRow
  <2>3. \A b \in Call : call[b].token # None => tokens'[call[b].token].state # "none"
    BY <1>5, <1>10 DEF CallState
  <2>4. \A u \in Token : tokens'[u].since <= password
    BY <1>5, <1>8
  <2>5. \A q \in Request : req'[q].password <= password
    BY <1>4 DEF IInv, TypeOK
  <2>6. QED
    BY <1>1, <1>4, <1>6, <1>8, <2>1, <2>2, <2>3, <2>4, <2>5 DEF IInv, TypeOK
<1>12. SpentIsDead'
  <2>1. \A u \in Token : tokens[u].state = "dead" => tokens'[u] = tokens[u]
    BY <1>10
  <2>2. \A u \in Token : tokens'[u].from # None => tokens'[tokens'[u].from].state = "dead"
    BY <1>5, <1>8, <2>1 DEF IInv, BrowserInv, SpentIsDead, TokenRow
  <2>3. \A b \in Call : call[b].pc = "renew" => tokens'[call[b].token].state = "dead"
    BY <1>5, <1>9, <2>1 DEF IInv, BrowserInv, SpentIsDead, HoldsToken, CallState
  <2>4. QED
    BY <1>1, <2>2, <2>3 DEF SpentIsDead
<1>13. RotatesAlone' /\ RotationIsSingle'
  <2>1. \A u \in Token : tokens'[u].from = tokens[u].from \/ tokens'[u].from = None
    BY <1>8
  <2>2. \A u \in Token : tokens'[u].from # None => tokens'[u].from = tokens[u].from
    BY <2>1
  <2>3. \A b \in Call : Rotating(b) => call[b].token # None
    BY <1>9 DEF Rotating, HoldsToken
  <2>4. RotationIsSingle'
    BY <1>6, <2>2 DEF IInv, BrowserInv, RotationIsSingle
  <2>5. RotatesAlone'
    BY <1>1, <1>6, <2>1, <2>3 DEF IInv, BrowserInv, RotatesAlone, Rotating
  <2>6. QED
    BY <2>4, <2>5
<1>14. IssuesAreRecent' /\ ResetEndsSessions'
  <2>1. {"issuing", "switched"} \cap excused' = {} => {"issuing", "switched"} \cap excused = {}
    BY <1>6
  <2>2. \A b \in Call : Rotating(b) => tokens'[call[b].token] = tokens[call[b].token]
    BY <1>5, <1>9, <1>10 DEF Rotating, HoldsToken, CallState
  <2>3. IssuesAreRecent'
    BY <1>1, <2>1, <2>2 DEF IInv, BrowserInv, IssuesAreRecent, Rotating
  <2>4. ResetEndsSessions'
    BY <1>1, <1>7, <1>8, <2>1 DEF IInv, BrowserInv, ResetEndsSessions
  <2>5. QED
    BY <2>3, <2>4
<1>15. RenewingIsWhole' /\ SessionIsWhole' /\ LeftBehind'
  BY <1>1, <1>6 DEF IInv, BrowserInv, RenewingIsWhole, SessionIsWhole, LeftBehind, Renewing
<1>16. StoredTokenIsUnspent'
  BY <1>1, <1>6, <1>8 DEF IInv, BrowserInv, StoredTokenIsUnspent
<1>17. DeniedIsDead'
  <2>1. \A b \in Call : call[b].pc = "denied" => tokens'[call[b].token] = tokens[call[b].token]
    BY <1>5, <1>9, <1>10 DEF HoldsToken, CallState
  <2>2. QED
    BY <1>1, <2>1 DEF IInv, BrowserInv, DeniedIsDead
<1>18. ASSUME NEW b \in Call PROVE HoldsToken(b)' /\ HeldAlone(b)'
  BY <1>1, <1>8, <1>9 DEF HoldsToken, HeldAlone
<1>19. LinksInv'
  BY <1>1, <1>4, <1>6, LinksMoved DEF Opened
<1>20. QED
  BY <1>11, <1>12, <1>13, <1>14, <1>15, <1>16, <1>17, <1>18, <1>19 DEF IInv, BrowserInv

-----------------------------------------------------------------------------
(* The invariant holds, and what it implies.                               *)

LEMMA InitHolds == Init => IInv
<1> SUFFICES ASSUME Init PROVE IInv
  OBVIOUS
<1>1. PICK signedIn \in BOOLEAN :
        /\ tokens = [t \in Token |-> LET is == signedIn /\ t = 1 IN
                       [state |-> IF is THEN "live" ELSE "none", since |-> IF is THEN 1 ELSE 0, from |-> None]]
        /\ storage = [token |-> IF signedIn THEN 1 ELSE None, identity |-> signedIn]
  BY DEF Init
<1>2. PICK cast \in Casts :
        /\ call = [c \in Call |-> IF c \in cast THEN Unsent ELSE [Unsent EXCEPT !.pc = "over"]]
        /\ req = [r \in Request |-> [pc |-> IF r \in cast THEN "idle" ELSE "over",
                                     link |-> CHOOSE l \in Link : TRUE, password |-> 0]]
        /\ links = [l \in Link |-> [state |-> IF l \in cast THEN "none" ELSE "gone", uses |-> 0]]
  BY DEF Init
<1>3. /\ password = 1 /\ verified = FALSE /\ resetTo = 0 /\ excused = {} /\ faults = 0
  BY DEF Init
<1>4. 1 \in Token /\ (CHOOSE l \in Link : TRUE) \in Link
  BY MaxAssumption, LinkAssumption DEF Token
<1>5. /\ tokens \in [Token -> TokenRow]
      /\ \A t \in Token : tokens[t].from = None /\ tokens[t].since <= 1
      /\ signedIn => tokens[1].state = "live"
  BY <1>1, <1>4 DEF TokenRow
<1>6. /\ storage \in [token : Token \cup {None}, identity : BOOLEAN]
      /\ storage.token # None => signedIn /\ storage.identity /\ storage.token = 1
  BY <1>1, <1>4
<1>7. /\ call \in [Call -> CallState]
      /\ \A c \in Call : /\ call[c].pc \in {"idle", "over"} /\ ~call[c].left /\ call[c].token = None
                         /\ call[c].password = 0
  <2>1. /\ Unsent \in CallState /\ Unsent.pc = "idle" /\ ~Unsent.left /\ Unsent.token = None /\ Unsent.password = 0
    BY DEF Unsent, CallState, CallLabel
  <2> DEFINE ended == [Unsent EXCEPT !.pc = "over"]
  <2>2. /\ ended \in CallState /\ ended.pc = "over" /\ ~ended.left /\ ended.token = None /\ ended.password = 0
    BY DEF Unsent, CallState, CallLabel
  <2>3. call = [c \in Call |-> IF c \in cast THEN Unsent ELSE ended]
    BY <1>2
  <2> HIDE DEF ended
  <2>4. QED
    BY <2>1, <2>2, <2>3
<1>8. /\ req \in [Request -> RequestState]
      /\ \A r \in Request : req[r].password = 0 /\ ~Opened(r)
  BY <1>2, <1>4 DEF RequestState, RequestLabel, Opened
<1>9. /\ links \in [Link -> [state : {"none", "live", "gone"}, uses : Nat]] /\ \A l \in Link : links[l].uses = 0
  BY <1>2
<1>10. TypeOK
  <2>1. /\ \A c \in Call : call[c].password <= password
        /\ \A r \in Request : req[r].password <= password
        /\ \A t \in Token : tokens[t].since <= password
    BY <1>3, <1>5, <1>7, <1>8
  <2>2. /\ storage.token # None => tokens[storage.token].state # "none"
        /\ \A t \in Token : tokens[t].from # None => tokens[tokens[t].from].state # "none"
        /\ \A c \in Call : call[c].token # None => tokens[call[c].token].state # "none"
    BY <1>5, <1>6, <1>7
  <2>3. password \in Nat \ {0} /\ resetTo \in 0..password /\ faults \in Nat
    BY <1>3
  <2>4. QED
    BY <1>3, <1>5, <1>6, <1>7, <1>8, <1>9, <2>1, <2>2, <2>3 DEF TypeOK
<1>11. BrowserInv
  <2>1. SpentIsDead /\ RotatesAlone /\ RotationIsSingle
    BY <1>5, <1>7 DEF SpentIsDead, RotatesAlone, RotationIsSingle, Rotating
  <2>2. IssuesAreRecent /\ ResetEndsSessions
    BY <1>3, <1>5, <1>7 DEF IssuesAreRecent, ResetEndsSessions, Rotating, TokenRow
  <2>3. RenewingIsWhole /\ SessionIsWhole /\ LeftBehind /\ DeniedIsDead
    BY <1>6, <1>7 DEF RenewingIsWhole, SessionIsWhole, LeftBehind, DeniedIsDead, Renewing
  <2>4. StoredTokenIsUnspent
    BY <1>5, <1>6 DEF StoredTokenIsUnspent
  <2>5. \A c \in Call : HoldsToken(c) /\ HeldAlone(c)
    BY <1>7 DEF HoldsToken, HeldAlone
  <2>6. QED
    BY <2>1, <2>2, <2>3, <2>4, <2>5 DEF BrowserInv
<1>12. LinksInv
  BY <1>8, <1>9 DEF LinksInv
<1>13. QED
  BY <1>10, <1>11, <1>12 DEF IInv

LEMMA StutterKeeps == IInv /\ UNCHANGED vars => IInv'
<1> SUFFICES ASSUME IInv, UNCHANGED vars PROVE IInv'
  OBVIOUS
<1>1. UNCHANGED <<password, verified, tokens, links, storage, call, req, resetTo, excused, faults>>
  BY DEF vars, server
<1>2. TypeOK'
  BY <1>1 DEF IInv, TypeOK
<1>3. QED
  BY <1>1, <1>2, SameAge, ElsewhereKept, LinksKept DEF IInv, TypeOK

LEMMA NextKeeps == IInv /\ Next => IInv'
<1> SUFFICES ASSUME IInv, Next PROVE IInv'
  OBVIOUS
<1>1. ASSUME NEW c \in Call, SendData(c) \/ SendLogin(c) \/ Browser(c) \/ Leave(c) \/ Fault(c) PROVE IInv'
  BY <1>1, SendKeeps, AnswerKeeps, BeginRefreshKeeps, FindKeeps, RotateKeeps, StoreKeeps, ForgetKeeps, GrantKeeps,
     LeaveKeeps, FaultKeeps DEF Browser
<1>2. ASSUME NEW r \in Request, Elsewhere(r) PROVE IInv'
  BY <1>2, OpenLinkKeeps, UpdateUserKeeps, DeleteLinkKeeps, RevokeAllKeeps, changePasswordKeeps, logoutKeeps,
     switchOrganizationKeeps, RejectKeeps DEF Elsewhere
<1>3. ASSUME NEW l \in Link, forgotPassword(l) \/ resendVerification(l) PROVE IInv'
  BY <1>3, MailKeeps DEF forgotPassword, resendVerification
<1>4. QED
  BY <1>1, <1>2, <1>3, LogoutKeeps DEF Next

LEMMA Inductive == Spec => []IInv
<1>1. IInv /\ [Next]_vars => IInv'
  BY NextKeeps, StutterKeeps
<1>2. QED
  BY InitHolds, <1>1, PTL DEF Spec

LEMMA LinksOnce == IInv => LinkWorksOnce
<1> SUFFICES ASSUME IInv, {"sameLink", "linkKept"} \cap excused = {}, NEW l \in Link PROVE links[l].uses <= 1
  BY DEF LinkWorksOnce
<1>1. links[l].uses = 0 \/ links[l].uses = 1
  BY DEF IInv, LinksInv
<1>2. QED
  BY <1>1

(* A reset or verification link works once, but for two requests that open *)
(* it at once and a rejected deletion of its key; and the pages have a     *)
(* user and an organization where they have tokens, unless one call forgot *)
(* them while another renewed (resetPassword, verifyEmail; api.ts).        *)
THEOREM LinksWorkOnce == Spec => []SessionsInv
<1>1. IInv => SessionsInv
  BY LinksOnce DEF IInv, BrowserInv, SessionsInv
<1>2. QED
  BY Inductive, <1>1, PTL

(* A refresh token buys one other, unless two refreshes with it both found *)
(* it unrevoked (AuthService.refreshToken).                                *)
THEOREM RotatesOnce == Spec => []RotationIsSingle
<1>1. IInv => RotationIsSingle
  BY DEF IInv, BrowserInv
<1>2. QED
  BY Inductive, <1>1, PTL

(* No session from before a password reset outlives it, however often it   *)
(* was renewed, with the two exceptions ResetEndsSessions names            *)
(* (AuthService.resetPassword, generateTokens).                            *)
THEOREM ResetsEndSessions == Spec => []ResetEndsSessions
<1>1. IInv => ResetEndsSessions
  BY DEF IInv, BrowserInv
<1>2. QED
  BY Inductive, <1>1, PTL

(* The browser never keeps a refresh token that has been exchanged, but    *)
(* while a call waits for what it bought, or after a page was left in the  *)
(* middle of a refresh (the response interceptor of api.ts).               *)
THEOREM StoresUnspent == Spec => []StoredTokenIsUnspent
<1>1. IInv => StoredTokenIsUnspent
  BY DEF IInv, BrowserInv
<1>2. QED
  BY Inductive, <1>1, PTL

LEMMA ForgetTakesIt ==
  ASSUME IInv, Next, storage.token # None, storage'.token = None, call' # call
  PROVE  \E c \in Call : Forget(c)
<1>1. storage' # storage
  OBVIOUS
<1>2. ~Logout
  BY DEF Logout
<1>3. \A l \in Link : ~forgotPassword(l) /\ ~resendVerification(l)
  BY <1>1 DEF forgotPassword, resendVerification, Mail
<1>4. \A r \in Request : ~Elsewhere(r)
  BY <1>1 DEF Elsewhere, changePassword, logout, UpdateUser, DeleteLink, RevokeAll, EndReset, Reject, OpenLink,
              switchOrganization, ReqAt
<1>5. PICK c \in Call : SendData(c) \/ SendLogin(c) \/ Browser(c) \/ Leave(c) \/ Fault(c)
  BY <1>2, <1>3, <1>4 DEF Next
<1>6. ~SendData(c) /\ ~SendLogin(c) /\ ~Leave(c) /\ ~Fault(c)
  BY <1>1 DEF SendData, SendLogin, Leave, Fault
<1>7. /\ ~Authenticate(c) /\ ~Compare(c) /\ ~Grant(c) /\ ~BeginRefresh(c) /\ ~RefusedAgain(c) /\ ~Find(c)
      /\ ~Rotate(c) /\ ~Renew(c)
  BY <1>1 DEF Authenticate, Compare, Grant, BeginRefresh, RefusedAgain, Find, Rotate, Renew
<1>8. ~StoreGranted(c) /\ ~StoreRenewed(c)
  <2> SUFFICES ASSUME StoreGranted(c) \/ StoreRenewed(c) PROVE FALSE
    OBVIOUS
  <2>1. call[c].pc \in {"granted", "renewed"}
    BY DEF StoreGranted, StoreRenewed, At
  <2>2. storage'.token = call[c].token
    BY DEF StoreGranted, StoreRenewed, IInv, TypeOK
  <2>3. call[c].token # None
    BY <2>1 DEF IInv, BrowserInv, HoldsToken
  <2>4. QED
    BY <2>2, <2>3
<1>9. QED
  BY <1>5, <1>6, <1>7, <1>8 DEF Browser

(* What a refused call makes the browser forget is a session the server    *)
(* refuses, or one stored while the call waited, or an answer was lost     *)
(* (the response interceptor of api.ts).                                   *)
THEOREM ForgetsTheDead == Spec => ForgetsOnlyDeadSessions
<1> DEFINE Forgets ==
      \A c \in Call : call[c].pc # "over" /\ call'[c].pc = "over" /\ storage.token # None /\ storage'.token = None
        => \/ tokens[storage.token].state = "dead" \/ storage.token # call[c].token \/ faults > 0
<1>1. IInv /\ [Next]_vars => [Forgets]_vars
  <2> SUFFICES ASSUME IInv, Next, NEW c \in Call, call[c].pc # "over", call'[c].pc = "over",
                      storage.token # None, storage'.token = None
               PROVE  tokens[storage.token].state = "dead" \/ storage.token # call[c].token \/ faults > 0
    BY DEF vars
  <2>1. PICK b \in Call : Forget(b)
    BY ForgetTakesIt
  <2>2. b = c
    BY <2>1, Ended DEF Forget, IInv
  <2>3. call[c].pc = "denied"
    BY <2>1, <2>2 DEF Forget, At
  <2>4. faults = 0 \/ faults > 0
    BY DEF IInv, TypeOK
  <2>5. QED
    BY <2>3, <2>4 DEF IInv, BrowserInv, DeniedIsDead
<1>2. QED
  BY <1>1, Inductive, PTL DEF Spec, ForgetsOnlyDeadSessions

-----------------------------------------------------------------------------
(* The pages.  Keys, data and what the service has.                        *)

LEMMA KeysApart ==
  "list" \in Key /\ "list" \notin Item /\ Item \subseteq Key /\ NoItem \notin Key /\ NoItem \notin Item
  BY ItemAssumption DEF Key, NoItem

LEMMA NoMoreGoesOn ==
  ASSUME NEW m \in [row : Nat, in : Nat, count : Nat], NEW s \in Row, NEW t \in Row, NoMore(m, s), NoMore(s, t)
  PROVE  NoMore(m, t)
  BY DEF NoMore, Row

LEMMA NothingIsNoData == ASSUME NEW k PROVE Nothing \notin Data(k)
<1>1. DOMAIN Nothing = {"nothing"}
  BY DEF Nothing
<1>2. \A d \in [rows : [Item -> [status : Status, row : Nat, count : Nat]]] : DOMAIN d = {"rows"}
  OBVIOUS
<1>3. \A d \in [inner : Inner, in : Nat] : DOMAIN d = {"inner", "in"}
  OBVIOUS
<1>4. "nothing" \notin {"rows", "inner", "in"}
  OBVIOUS
<1>5. QED
  BY <1>1, <1>2, <1>3, <1>4 DEF Data

LEMMA SnapshotIsData ==
  ASSUME ConsoleIInv, NEW k \in Key
  PROVE  Snapshot(k) \in Data(k) /\ Includes(k, Snapshot(k))
<1>1. stored \in [Item -> Row] /\ known \in [Item -> [row : Nat, in : Nat, count : Nat]]
  BY DEF ConsoleIInv, ConsoleInv, ConsoleTypeOK
<1>2. \A i \in Item : known[i].row <= stored[i].row /\ known[i].in <= stored[i].in /\ known[i].count <= stored[i].count
  BY DEF ConsoleIInv, ToldIsStored, NoMore
<1>3. CASE k = "list"
  <2>1. \A i \in Item : /\ Card(stored[i]) \in [status : Status, row : Nat, count : Nat]
                        /\ Card(stored[i]).row = stored[i].row /\ Card(stored[i]).count = stored[i].count
    BY <1>1 DEF Card, Row
  <2>2. Snapshot(k) = [rows |-> [i \in Item |-> Card(stored[i])]]
    BY <1>3 DEF Snapshot
  <2>3. Snapshot(k) \in Data(k)
    BY <1>3, <2>1, <2>2 DEF Data
  <2>4. \A i \in Item : Snapshot(k).rows[i].row >= known[i].row /\ Snapshot(k).rows[i].count >= known[i].count
    <3> SUFFICES ASSUME NEW i \in Item
                 PROVE  Snapshot(k).rows[i].row >= known[i].row /\ Snapshot(k).rows[i].count >= known[i].count
      OBVIOUS
    <3>1. Snapshot(k).rows[i] = Card(stored[i])
      BY <2>2
    <3>2. stored[i].row >= known[i].row /\ stored[i].count >= known[i].count
      BY <1>1, <1>2 DEF Row
    <3>3. QED
      BY <2>1, <3>1, <3>2
  <2>5. QED
    BY <1>3, <2>3, <2>4 DEF Includes, CountsAre
<1>4. CASE k # "list"
  <2>1. k \in Item
    BY <1>4 DEF Key
  <2>2. QED
    BY <1>1, <1>2, <1>4, <2>1 DEF Snapshot, Data, Includes, Row
<1>5. QED
  BY <1>3, <1>4

LEMMA StatesOfKeys ==
  ASSUME ConsoleIInv, NEW k \in Key
  PROVE  /\ query[k].at \in {"idle", "sent", "read", "failed"} /\ query[k].stale \in BOOLEAN
         /\ query[k].data \in Data(k) \cup {Nothing} /\ query[k].read \in Data(k) \cup {Nothing}
         /\ Fetching(query[k]) \in QueryState(k) /\ Fetching(query[k]).at = "sent"
  BY DEF ConsoleIInv, ConsoleInv, ConsoleTypeOK, QueryState, Fetching

-----------------------------------------------------------------------------
(* A fetch goes on.                                                        *)

LEMMA QueryKept ==
  ASSUME ConsoleIInv, NEW k \in Key, NEW q \in QueryState(k), query' = [query EXCEPT ![k] = q],
         UNCHANGED <<page, selected, results, stored, command, clicks, known, missed, strayed>>, lost' \in 0..MaxLost,
         q.at = "idle" => q.read = Nothing /\ ~q.stale,
         k \notin missed =>
           /\ q.at = "idle" => q.data # Nothing /\ Includes(k, q.data)
           /\ q.at = "read" => q.read # Nothing /\ Includes(k, q.read)
  PROVE  ConsoleIInv'
<1>1. DOMAIN query' = Key /\ query'[k] = q /\ \A l \in Key : l # k => query'[l] = query[l]
  BY DEF ConsoleIInv, ConsoleInv, ConsoleTypeOK
<1>2. ConsoleTypeOK'
  BY <1>1 DEF ConsoleIInv, ConsoleInv, ConsoleTypeOK
<1>3. ResultsAreOfSelection' /\ ToldIsStored'
  BY DEF ConsoleIInv, ConsoleInv, ResultsAreOfSelection, ToldIsStored
<1>4. FreshIncludes'
  <2> SUFFICES ASSUME NEW l \in Key \ missed
               PROVE  /\ query'[l].at = "idle" /\ ~query'[l].stale => query'[l].data # Nothing /\ Includes(l, query'[l].data)
                      /\ query'[l].at = "read" => query'[l].read # Nothing /\ Includes(l, query'[l].read)
    BY DEF FreshIncludes, Includes, CountsAre
  <2>1. CASE l = k
    BY <1>1, <2>1
  <2>2. CASE l # k
    BY <1>1, <2>2 DEF ConsoleIInv, FreshIncludes
  <2>3. QED
    BY <2>1, <2>2
<1>5. ShownIsFresh'
  BY <1>1 DEF ConsoleIInv, ShownIsFresh, Active
<1>6. QED
  BY <1>2, <1>3, <1>4, <1>5 DEF ConsoleIInv, ConsoleInv

LEMMA FetchKeeps ==
  ASSUME ConsoleIInv, NEW k \in Key, Read(k) \/ Receive(k) \/ FailFetch(k)
  PROVE  ConsoleIInv'
<1>1. lost \in 0..MaxLost /\ MaxLost \in Nat
  BY ConsoleBounds DEF ConsoleIInv, ConsoleInv, ConsoleTypeOK
<1>2. query[k] \in QueryState(k) /\ DOMAIN query = Key
  BY DEF ConsoleIInv, ConsoleInv, ConsoleTypeOK
<1>3. CASE Read(k)
  <2> DEFINE gone == page = "knowledge" /\ k # "list" /\ stored[k].status = "GONE"
             q == IF gone THEN [query[k] EXCEPT !.at = "failed", !.read = Nothing]
                  ELSE [query[k] EXCEPT !.at = "read", !.read = Snapshot(k)]
  <2>1. query' = [query EXCEPT ![k] = q]
    BY <1>2, <1>3 DEF Read
  <2>2. q \in QueryState(k)
    BY <1>2, SnapshotIsData DEF QueryState
  <2>3. q.at # "idle" /\ (q.at = "read" => q.read = Snapshot(k))
    BY <1>2 DEF QueryState
  <2>4. Snapshot(k) # Nothing
    BY SnapshotIsData, NothingIsNoData
  <2> HIDE DEF q
  <2>5. UNCHANGED <<page, selected, results, stored, command, clicks, known, missed, strayed>> /\ lost' \in 0..MaxLost
    BY <1>1, <1>3 DEF Read, bounds
  <2>6. QED
    BY <2>1, <2>2, <2>3, <2>4, <2>5, SnapshotIsData, QueryKept
<1>4. CASE Receive(k)
  <2> DEFINE q == [at |-> "idle", data |-> query[k].read, read |-> Nothing, stale |-> FALSE]
  <2>1. query' = [query EXCEPT ![k] = q] /\ query[k].at = "read"
    BY <1>4 DEF Receive
  <2>2. q \in QueryState(k)
    BY StatesOfKeys DEF QueryState
  <2>3. q.at = "idle" /\ q.read = Nothing /\ ~q.stale /\ q.data = query[k].read
    OBVIOUS
  <2>4. k \notin missed => q.data # Nothing /\ Includes(k, q.data)
    BY <2>1 DEF ConsoleIInv, FreshIncludes
  <2> HIDE DEF q
  <2>5. UNCHANGED <<page, selected, results, stored, command, clicks, known, missed, strayed>> /\ lost' \in 0..MaxLost
    BY <1>1, <1>4 DEF Receive, bounds
  <2>6. QED
    BY <2>1, <2>2, <2>3, <2>4, <2>5, QueryKept
<1>5. CASE FailFetch(k)
  <2> DEFINE q == [query[k] EXCEPT !.at = "failed", !.read = Nothing]
  <2>1. query' = [query EXCEPT ![k] = q]
    BY <1>2, <1>5 DEF FailFetch, QueryState
  <2>2. q \in QueryState(k) /\ q.at = "failed"
    BY <1>2 DEF QueryState
  <2> HIDE DEF q
  <2>3. UNCHANGED <<page, selected, results, stored, command, clicks, known, missed, strayed>> /\ lost' \in 0..MaxLost
    BY <1>1, <1>5 DEF FailFetch
  <2>4. QED
    BY <2>1, <2>2, <2>3, QueryKept
<1>6. QED
  BY <1>3, <1>4, <1>5

-----------------------------------------------------------------------------
(* Commands that fetch nothing.                                            *)

LEMMA CommandsKept ==
  ASSUME ConsoleIInv, UNCHANGED <<page, selected, query, known, missed>>,
         command' \in [Command -> CommandState],
         \A c \in Command : command'[c].at # "free" => command'[c].kind \in Kind /\ command'[c].on \in Item,
         stored' \in [Item -> Row],
         \A i \in Item : NoMore(stored[i], stored'[i]),
         \A c \in Command : command'[c].at = "done" => NoMore(command'[c], stored'[command'[c].on]),
         results' \in Item \cup {NoItem}, strayed' \in BOOLEAN, ResultsAreOfSelection',
         clicks' \in 0..MaxCalls, lost' \in 0..MaxLost
  PROVE  ConsoleIInv'
<1>1. ConsoleTypeOK'
  BY DEF ConsoleIInv, ConsoleInv, ConsoleTypeOK
<1>2. FreshIncludes' /\ ShownIsFresh'
  BY DEF ConsoleIInv, FreshIncludes, Includes, CountsAre, ShownIsFresh, Active
<1>3. \A i \in Item : NoMore(known[i], stored'[i])
  <2> SUFFICES ASSUME NEW i \in Item PROVE NoMore(known[i], stored'[i])
    OBVIOUS
  <2>1. NoMore(known[i], stored[i]) /\ NoMore(stored[i], stored'[i])
    BY DEF ConsoleIInv, ToldIsStored
  <2>2. known[i] \in [row : Nat, in : Nat, count : Nat] /\ stored[i] \in Row /\ stored'[i] \in Row
    BY DEF ConsoleIInv, ConsoleInv, ConsoleTypeOK
  <2>3. QED
    BY <2>1, <2>2, NoMoreGoesOn
<1>4. ToldIsStored'
  BY <1>3 DEF ToldIsStored
<1>5. QED
  BY <1>1, <1>2, <1>4 DEF ConsoleIInv, ConsoleInv

LEMMA FreeIsTyped == Free \in CommandState /\ Free.at = "free"
  BY DEF Free, CommandState

LEMMA FreedKeeps ==
  ASSUME ConsoleIInv, NEW c \in Command, command' = [command EXCEPT ![c] = Free],
         UNCHANGED <<page, selected, query, stored, clicks, known, missed>>,
         results' \in Item \cup {NoItem}, strayed' \in BOOLEAN, ResultsAreOfSelection', lost' \in 0..MaxLost
  PROVE  ConsoleIInv'
<1>1. ConsoleTypeOK /\ ToldIsStored
  BY DEF ConsoleIInv, ConsoleInv
<1>2. command' \in [Command -> CommandState] /\ command'[c] = Free /\ \A d \in Command : d # c => command'[d] = command[d]
  BY <1>1, FreeIsTyped DEF ConsoleTypeOK
<1>3. \A i \in Item : NoMore(stored[i], stored'[i])
  BY <1>1 DEF ConsoleTypeOK, Row, NoMore
<1>4. \A d \in Command : /\ command'[d].at # "free" => command'[d].kind \in Kind /\ command'[d].on \in Item
                         /\ command'[d].at = "done" => NoMore(command'[d], stored'[command'[d].on])
  BY <1>1, <1>2, FreeIsTyped DEF ConsoleTypeOK, ToldIsStored
<1>5. stored' \in [Item -> Row] /\ clicks' \in 0..MaxCalls
  BY <1>1 DEF ConsoleTypeOK
<1>6. QED
  BY <1>2, <1>3, <1>4, <1>5, CommandsKept

LEMMA EndsKeep ==
  ASSUME ConsoleIInv, NEW c \in Command, ShowResults(c) \/ Refused(c) \/ LoseAnswer(c)
  PROVE  ConsoleIInv'
<1>1. ConsoleTypeOK /\ ResultsAreOfSelection /\ MaxLost \in Nat
  BY ConsoleBounds DEF ConsoleIInv, ConsoleInv
<1>2. CASE ShowResults(c)
  <2>1. results' \in Item \cup {NoItem} /\ strayed' \in BOOLEAN /\ ResultsAreOfSelection'
    BY <1>1, <1>2 DEF ShowResults, ConsoleTypeOK, ResultsAreOfSelection
  <2>2. QED
    BY <1>1, <1>2, <2>1, FreedKeeps DEF ShowResults, ConsoleTypeOK, bounds
<1>3. CASE Refused(c) \/ LoseAnswer(c)
  <2>1. results' \in Item \cup {NoItem} /\ strayed' \in BOOLEAN /\ ResultsAreOfSelection' /\ lost' \in 0..MaxLost
    BY <1>1, <1>3 DEF Refused, LoseAnswer, ConsoleTypeOK, ResultsAreOfSelection, bounds
  <2>2. QED
    BY <1>1, <1>3, <2>1, FreedKeeps DEF Refused, LoseAnswer, bounds
<1>4. QED
  BY <1>2, <1>3

LEMMA KeysForKinds ==
  ASSUME ConsoleIInv, NEW kind, NEW i \in Item
  PROVE  KeyFor(kind, i) \in Key \cup {NoItem}
  BY KeysApart DEF KeyFor, ConsoleIInv, ConsoleInv, ConsoleTypeOK

LEMMA ClickKeeps ==
  ASSUME ConsoleIInv, NEW c \in Command, NEW i \in Item, NEW kind \in Kind, Click(c, i, kind)
  PROVE  ConsoleIInv'
<1> DEFINE new == [Free EXCEPT !.kind = kind, !.on = i, !.key = KeyFor(kind, i), !.at = "sent", !.newest = TRUE]
<1>1. ConsoleTypeOK /\ ToldIsStored /\ ResultsAreOfSelection /\ MaxCalls \in Nat
  BY ConsoleBounds DEF ConsoleIInv, ConsoleInv
<1>2. new \in CommandState /\ new.at = "sent" /\ new.kind = kind /\ new.on = i
  BY KeysForKinds DEF Free, CommandState
<1>3. /\ command' \in [Command -> CommandState] /\ command'[c] = new
      /\ \A d \in Command : d # c =>
           command'[d].at = command[d].at /\ command'[d].kind = command[d].kind /\ command'[d].on = command[d].on
           /\ command'[d].row = command[d].row /\ command'[d].in = command[d].in /\ command'[d].count = command[d].count
  <2> HIDE DEF new
  <2>1. \A d \in Command : [command[d] EXCEPT !.newest = FALSE] \in CommandState
    <3>1. \A s \in CommandState : [s EXCEPT !.newest = FALSE] \in CommandState
      BY DEF CommandState
    <3>2. QED
      BY <1>1, <3>1 DEF ConsoleTypeOK
  <2>2. command' = [d \in Command |-> IF d = c THEN new ELSE IF command[d].kind = kind
                                      THEN [command[d] EXCEPT !.newest = FALSE] ELSE command[d]]
    BY DEF Click, new
  <2>3. \A d \in Command : command[d] \in CommandState
    BY <1>1 DEF ConsoleTypeOK
  <2>4. command' \in [Command -> CommandState] /\ command'[c] = new
    BY <1>2, <2>1, <2>2, <2>3
  <2>5. ASSUME NEW d \in Command, d # c
        PROVE  command'[d].at = command[d].at /\ command'[d].kind = command[d].kind /\ command'[d].on = command[d].on
               /\ command'[d].row = command[d].row /\ command'[d].in = command[d].in /\ command'[d].count = command[d].count
    BY <2>2, <2>3, <2>5 DEF CommandState
  <2>6. QED
    BY <2>4, <2>5
<1> HIDE DEF new
<1>4. \A j \in Item : NoMore(stored[j], stored'[j])
  BY <1>1 DEF ConsoleTypeOK, Row, Click, NoMore
<1>5. UNCHANGED <<page, selected, results, query, stored, known, missed, strayed, lost>> /\ clicks' \in 0..MaxCalls
  BY <1>1 DEF Click, ConsoleTypeOK
<1>6. \A d \in Command : /\ command'[d].at # "free" => command'[d].kind \in Kind /\ command'[d].on \in Item
                         /\ command'[d].at = "done" => NoMore(command'[d], stored'[command'[d].on])
  BY <1>1, <1>2, <1>3, <1>5 DEF ConsoleTypeOK, ToldIsStored, NoMore
<1>7. results' \in Item \cup {NoItem} /\ strayed' \in BOOLEAN /\ ResultsAreOfSelection' /\ lost' \in 0..MaxLost /\ stored' \in [Item -> Row]
  BY <1>1, <1>5 DEF ConsoleTypeOK, ResultsAreOfSelection
<1>8. QED
  BY <1>3, <1>4, <1>5, <1>6, <1>7, CommandsKept

-----------------------------------------------------------------------------
(* What the services do.                                                   *)

LEMMA BecameIsRow ==
  ASSUME NEW s \in Row, NEW kind \in Kind \ {"search"}
  PROVE  /\ Counted(kind, s, Became(kind, s)) \in Row
         /\ NoMore(s, Counted(kind, s, Became(kind, s)))
<1> DEFINE t == Became(kind, s)
<1>1. t \in Row /\ t.row = s.row /\ t.in = s.in /\ s.count <= t.count
  <2>1. /\ s \in [status : Status, inner : Inner, row : Nat, in : Nat, count : Nat]
        /\ s.status \in Status /\ s.inner \in Inner /\ s.row \in Nat /\ s.in \in Nat /\ s.count \in Nat
    BY DEF Row
  <2>2. s.count <= s.count /\ s.count <= s.count + 1 /\ s.count + 1 \in Nat
    BY <2>1
  <2>3. t \in Row /\ t.row = s.row /\ t.in = s.in /\ t.count \in {s.count, s.count + 1}
    <3>1. CASE kind \in {"create", "connect", "activate", "pause", "disconnect", "archive"}
      <4>1. PICK st \in Status : t = [s EXCEPT !.status = st]
        BY <3>1 DEF Became, CountKind, Status
      <4> HIDE DEF t
      <4>2. QED
        BY <2>1, <4>1 DEF Row
    <3>2. CASE kind \in {"reindex", "removeDoc"} \/ (kind = "cancelRun" /\ s.inner = "BUSY")
      <4>1. PICK in \in Inner : t = [s EXCEPT !.inner = in]
        BY <3>2 DEF Became, CountKind, Inner
      <4> HIDE DEF t
      <4>2. QED
        BY <2>1, <4>1 DEF Row
    <3>3. CASE kind = "cancelRun" /\ s.inner # "BUSY"
      <4>1. t = s
        BY <3>3 DEF Became, CountKind
      <4>2. QED
        BY <4>1
    <3>4. CASE kind = "removeBase"
      <4>1. t = [s EXCEPT !.status = "GONE", !.inner = "NONE"]
        BY <3>4 DEF Became, CountKind
      <4> HIDE DEF t
      <4>2. QED
        BY <2>1, <4>1 DEF Row, Status, Inner
    <3>5. CASE kind \in CountKind
      <4>1. t = [s EXCEPT !.inner = "BUSY", !.count = s.count + 1]
        BY <3>5 DEF Became, CountKind
      <4> HIDE DEF t
      <4>2. QED
        BY <2>1, <2>2, <4>1 DEF Row, Inner
    <3>6. QED
      BY <3>1, <3>2, <3>3, <3>4, <3>5 DEF Kind, RowKind, InnerKind, CountKind
  <2> HIDE DEF t
  <2>4. QED
    BY <2>2, <2>3
<1> HIDE DEF t
<1>2. s.row \in Nat /\ s.in \in Nat
  BY DEF Row
<1>3. QED
  BY <1>1, <1>2 DEF Counted, Row, NoMore, t

LEMMA ServeKeeps ==
  ASSUME ConsoleIInv, NEW c \in Command, Serve(c)
  PROVE  ConsoleIInv'
<1> DEFINE kind == command[c].kind
           i == command[c].on
           after == IF kind = "search" THEN stored[i] ELSE Counted(kind, stored[i], Became(kind, stored[i]))
           answer == [command[c] EXCEPT !.at = "done", !.row = after.row, !.in = after.in, !.count = after.count]
           refusal == [command[c] EXCEPT !.at = "refused"]
<1>1. ConsoleTypeOK /\ ToldIsStored /\ ResultsAreOfSelection /\ command[c].at = "sent"
  BY DEF ConsoleIInv, ConsoleInv, Serve
<1>2. kind \in Kind /\ i \in Item /\ stored[i] \in Row /\ command[c] \in CommandState /\ stored \in [Item -> Row]
  BY <1>1 DEF ConsoleTypeOK
<1>3. after \in Row /\ NoMore(stored[i], after)
  <2>1. NoMore(stored[i], stored[i])
    BY <1>2 DEF Row, NoMore
  <2>2. QED
    BY <1>2, <2>1, BecameIsRow
<1>4. UNCHANGED <<page, selected, results, query, clicks, lost, known, missed, strayed>>
  BY DEF Serve, bounds
<1>5. \/ stored' = [stored EXCEPT ![i] = after] /\ command' = [command EXCEPT ![c] = answer]
      \/ stored' = stored /\ command' = [command EXCEPT ![c] = refusal]
  BY <1>1 DEF Serve, ConsoleTypeOK
<1>6. /\ answer \in CommandState /\ answer.at = "done"
      /\ answer.row = after.row /\ answer.in = after.in /\ answer.count = after.count
      /\ refusal \in CommandState /\ refusal.at = "refused"
      /\ answer.kind = kind /\ answer.on = i /\ refusal.kind = kind /\ refusal.on = i
  BY <1>2, <1>3 DEF CommandState, Row
<1> HIDE DEF after, answer, refusal
<1>7. /\ stored' \in [Item -> Row]
      /\ \A j \in Item : NoMore(stored[j], stored'[j])
      /\ command'[c] = answer => stored'[i] = after
  <2>1. \A j \in Item : NoMore(stored[j], stored[j])
    BY <1>2 DEF Row, NoMore
  <2>2. command'[c] = answer => stored'[i] = after
    BY <1>1, <1>2, <1>5, <1>6 DEF ConsoleTypeOK
  <2>3. stored' \in [Item -> Row]
    BY <1>2, <1>3, <1>5
  <2>4. \A j \in Item : NoMore(stored[j], stored'[j])
    BY <1>2, <1>3, <1>5, <2>1
  <2>5. QED
    BY <2>2, <2>3, <2>4
<1>8. /\ command' \in [Command -> CommandState] /\ command'[c] \in {answer, refusal}
      /\ \A d \in Command : d # c => command'[d] = command[d]
  BY <1>1, <1>5, <1>6 DEF ConsoleTypeOK
<1>9. \A d \in Command : command'[d].at # "free" => command'[d].kind \in Kind /\ command'[d].on \in Item
  BY <1>1, <1>2, <1>6, <1>8 DEF ConsoleTypeOK
<1>10. ASSUME NEW d \in Command, command'[d].at = "done"
       PROVE  NoMore(command'[d], stored'[command'[d].on])
  <2>1. CASE d = c
    <3>1. command'[c] = answer /\ after.row \in Nat /\ after.in \in Nat /\ after.count \in Nat
      BY <1>3, <1>6, <1>8, <1>10, <2>1 DEF Row
    <3>2. QED
      BY <1>6, <1>7, <2>1, <3>1 DEF NoMore
  <2>2. CASE d # c
    <3>1. command'[d] = command[d] /\ command[d].on \in Item /\ command[d] \in CommandState
      BY <1>1, <1>8, <1>10, <2>2 DEF ConsoleTypeOK
    <3>2. NoMore(command[d], stored[command[d].on]) /\ NoMore(stored[command[d].on], stored'[command[d].on])
      BY <1>1, <1>7, <1>10, <3>1 DEF ToldIsStored
    <3>3. command[d].row \in Nat /\ command[d].in \in Nat /\ command[d].count \in Nat
      BY <3>1 DEF CommandState
    <3>4. stored[command[d].on] \in Row /\ stored'[command[d].on] \in Row
      BY <1>2, <1>7, <3>1
    <3>5. QED
      BY <3>1, <3>2, <3>3, <3>4 DEF NoMore, Row
  <2>3. QED
    BY <2>1, <2>2
<1>11. results' \in Item \cup {NoItem} /\ strayed' \in BOOLEAN /\ ResultsAreOfSelection' /\ clicks' \in 0..MaxCalls /\ lost' \in 0..MaxLost
  BY <1>1, <1>4 DEF ConsoleTypeOK, ResultsAreOfSelection
<1>12. QED
  BY <1>4, <1>7, <1>8, <1>9, <1>10, <1>11, CommandsKept

LEMMA FinishKeeps ==
  ASSUME ConsoleIInv, NEW i \in Item, Finish(i)
  PROVE  ConsoleIInv'
<1>1. ConsoleTypeOK /\ ToldIsStored /\ ResultsAreOfSelection
  BY DEF ConsoleIInv, ConsoleInv
<1>2. PICK outcome \in {"DONE", "FAILED"} : stored' = [stored EXCEPT ![i].inner = outcome]
  BY DEF Finish
<1>3. UNCHANGED <<page, selected, results, query, command, clicks, lost, known, missed, strayed>>
  BY DEF Finish, bounds
<1>4. /\ stored' \in [Item -> Row]
      /\ \A j \in Item : stored'[j].row = stored[j].row /\ stored'[j].in = stored[j].in /\ stored'[j].count = stored[j].count
      /\ \A j \in Item : stored[j].row \in Nat /\ stored[j].in \in Nat /\ stored[j].count \in Nat
  BY <1>1, <1>2 DEF ConsoleTypeOK, Row, Inner
<1>5. \A j \in Item : NoMore(stored[j], stored'[j])
  BY <1>4 DEF NoMore
<1>6. \A d \in Command : /\ command'[d].at # "free" => command'[d].kind \in Kind /\ command'[d].on \in Item
                         /\ command'[d].at = "done" => NoMore(command'[d], stored'[command'[d].on])
  BY <1>1, <1>3, <1>4 DEF ConsoleTypeOK, ToldIsStored, NoMore
<1>7. /\ command' \in [Command -> CommandState] /\ results' \in Item \cup {NoItem} /\ strayed' \in BOOLEAN
      /\ ResultsAreOfSelection' /\ clicks' \in 0..MaxCalls /\ lost' \in 0..MaxLost
  BY <1>1, <1>3 DEF ConsoleTypeOK, ResultsAreOfSelection
<1>8. QED
  BY <1>3, <1>4, <1>5, <1>6, <1>7, CommandsKept

-----------------------------------------------------------------------------
(* Another item is opened.                                                 *)

LEMMA FollowedAreTyped ==
  ASSUME ConsoleIInv, NEW i \in Item
  PROVE  /\ Followed(i) \in [Command -> CommandState]
         /\ \A c \in Command : /\ Followed(i)[c].at = command[c].at /\ Followed(i)[c].kind = command[c].kind
                               /\ Followed(i)[c].on = command[c].on
                               /\ Followed(i)[c].row = command[c].row /\ Followed(i)[c].in = command[c].in
                               /\ Followed(i)[c].count = command[c].count
<1>1. \A s \in CommandState :
        /\ [s EXCEPT !.key = i] \in CommandState /\ [s EXCEPT !.key = i].at = s.at /\ [s EXCEPT !.key = i].kind = s.kind
        /\ [s EXCEPT !.key = i].on = s.on /\ [s EXCEPT !.key = i].row = s.row /\ [s EXCEPT !.key = i].in = s.in
        /\ [s EXCEPT !.key = i].count = s.count
  BY KeysApart DEF CommandState
<1>2. \A c \in Command : command[c] \in CommandState
  BY DEF ConsoleIInv, ConsoleInv, ConsoleTypeOK
<1>3. \A c \in Command : Followed(i)[c] = command[c] \/ Followed(i)[c] = [command[c] EXCEPT !.key = i]
  BY DEF Followed
<1>4. Followed(i) \in [Command -> CommandState]
  BY <1>1, <1>2 DEF Followed
<1>5. QED
  BY <1>1, <1>2, <1>3, <1>4

LEMMA SelectKeeps ==
  ASSUME ConsoleIInv, NEW i \in Item, Select(i)
  PROVE  ConsoleIInv'
<1>1. ConsoleTypeOK /\ ToldIsStored /\ FreshIncludes /\ ShownIsFresh
  BY DEF ConsoleIInv, ConsoleInv
<1>2. /\ selected' = i /\ results' = NoItem /\ command' = Followed(i)
      /\ UNCHANGED <<page, stored, clicks, lost, known, strayed>>
  BY DEF Select, bounds
<1>3. \/ query' = [query EXCEPT ![i] = Fetching(query[i])] /\ missed' = missed \ {i}
      \/ query' = query /\ missed' = missed /\ (query[i].at = "idle" => ~query[i].stale)
  BY DEF Select, Opens, InFlight
<1>4. i \in Key /\ i # "list" /\ Fetching(query[i]) \in QueryState(i) /\ Fetching(query[i]).at = "sent"
  BY KeysApart, StatesOfKeys
<1>5. DOMAIN query' = Key /\ (\A k \in Key : k # i => query'[k] = query[k])
      /\ (query'[i] = Fetching(query[i]) \/ query'[i] = query[i])
  BY <1>1, <1>3, <1>4 DEF ConsoleTypeOK
<1>6. ConsoleTypeOK'
  <2>1. \A k \in Key : query'[k] \in QueryState(k) /\ (query'[k].at = "idle" => query'[k].read = Nothing)
    BY <1>1, <1>4, <1>5 DEF ConsoleTypeOK
  <2>2. \A c \in Command : command'[c].at # "free" => command'[c].kind \in Kind /\ command'[c].on \in Item
    BY <1>1, <1>2, FollowedAreTyped DEF ConsoleTypeOK
  <2>3. QED
    BY <1>1, <1>2, <1>3, <1>5, <2>1, <2>2, FollowedAreTyped DEF ConsoleTypeOK
<1>7. FreshIncludes'
  <2> SUFFICES ASSUME NEW k \in Key \ missed'
               PROVE  /\ query'[k].at = "idle" /\ ~query'[k].stale => query'[k].data # Nothing /\ Includes(k, query'[k].data)
                      /\ query'[k].at = "read" => query'[k].read # Nothing /\ Includes(k, query'[k].read)
    <3>1. "counts" \in missed' <=> "counts" \in missed
      BY <1>3, ItemAssumption
    <3>2. QED
      BY <1>2, <3>1 DEF FreshIncludes, Includes, CountsAre
  <2>1. query'[k] = query[k] \/ query'[k].at = "sent"
    BY <1>4, <1>5
  <2>2. query'[k] = query[k] => k \notin missed \/ query'[k].at = "sent"
    BY <1>3, <1>4, <1>1 DEF ConsoleTypeOK
  <2>3. QED
    BY <1>1, <2>1, <2>2 DEF FreshIncludes
<1>8. ShownIsFresh'
  <2> SUFFICES ASSUME NEW k \in Key, k = "list" \/ k = i, query'[k].at = "idle"
               PROVE  ~query'[k].stale
    BY <1>2 DEF ShownIsFresh, Active
  <2>1. CASE k = "list"
    BY <1>1, <1>4, <1>5, <2>1 DEF ShownIsFresh, Active
  <2>2. CASE k = i
    BY <1>1, <1>3, <1>4, <2>2 DEF ConsoleTypeOK
  <2>3. QED
    BY <2>1, <2>2
<1>9. ToldIsStored'
  <2>1. \A c \in Command : command'[c].at = "done" => NoMore(command'[c], stored[command'[c].on])
    BY <1>1, <1>2, FollowedAreTyped DEF ToldIsStored, NoMore
  <2>2. QED
    BY <1>1, <1>2, <2>1 DEF ToldIsStored
<1>10. ResultsAreOfSelection'
  BY <1>2 DEF ResultsAreOfSelection
<1>11. QED
  BY <1>6, <1>7, <1>8, <1>9, <1>10 DEF ConsoleIInv, ConsoleInv

-----------------------------------------------------------------------------
(* A change is answered.                                                   *)

LEMMA MaxOfTwo ==
  ASSUME NEW a \in Nat, NEW b \in Nat
  PROVE  Max({a, b}) \in {a, b} /\ Max({a, b}) >= a /\ Max({a, b}) >= b
<1>1. \E x \in {a, b} : \A y \in {a, b} : x >= y
  <2>1. CASE a >= b
    BY <2>1
  <2>2. CASE b >= a
    BY <2>2
  <2>3. QED
    BY <2>1, <2>2
<1>2. QED
  BY <1>1 DEF Max

LEMMA ToldIsNoMore ==
  ASSUME ConsoleIInv, NEW c \in Command, command[c].at = "done"
  PROVE  /\ Told(c) \in [Item -> [row : Nat, in : Nat, count : Nat]]
         /\ \A i \in Item : NoMore(Told(c)[i], stored[i])
         /\ command[c].kind \notin RowKind => \A i \in Item : Told(c)[i].row = known[i].row
         /\ command[c].kind \in RowKind => \A i \in Item : Told(c)[i].in = known[i].in
         /\ command[c].kind \notin CountKind => \A i \in Item : Told(c)[i].count = known[i].count
         /\ \A i \in Item : i # command[c].on => Told(c)[i] = known[i]
<1> DEFINE o == command[c].on
           old == known[o]
           r == Max({old.row, command[c].row})
           n == Max({old.in, command[c].in})
           m == Max({old.count, command[c].count})
           new == [row |-> IF command[c].kind \in RowKind THEN r ELSE old.row,
                   in |-> IF command[c].kind \in RowKind THEN old.in ELSE n,
                   count |-> IF command[c].kind \in CountKind THEN m ELSE old.count]
<1>1. /\ known \in [Item -> [row : Nat, in : Nat, count : Nat]] /\ o \in Item
      /\ command[c].row \in Nat /\ command[c].in \in Nat /\ command[c].count \in Nat
      /\ \A i \in Item : NoMore(known[i], stored[i])
      /\ NoMore(command[c], stored[o])
  BY DEF ConsoleIInv, ConsoleInv, ConsoleTypeOK, ToldIsStored, CommandState
<1>2. old.row \in Nat /\ old.in \in Nat /\ old.count \in Nat
  BY <1>1
<1>3. r \in {old.row, command[c].row} /\ n \in {old.in, command[c].in} /\ m \in {old.count, command[c].count}
  BY <1>1, <1>2, MaxOfTwo
<1>4. Told(c) = [known EXCEPT ![o] = new]
  BY <1>1 DEF Told
<1> HIDE DEF r, n, m
<1>5. new \in [row : Nat, in : Nat, count : Nat]
  BY <1>1, <1>2, <1>3
<1>6. NoMore(old, stored[o]) /\ NoMore(command[c], stored[o])
  BY <1>1
<1>7. NoMore(new, stored[o])
  BY <1>3, <1>6 DEF NoMore
<1>8. /\ command[c].kind \notin RowKind => new.row = old.row
      /\ command[c].kind \in RowKind => new.in = old.in
      /\ command[c].kind \notin CountKind => new.count = old.count
  OBVIOUS
<1> HIDE DEF new
<1>9. Told(c)[o] = new /\ \A i \in Item : i # o => Told(c)[i] = known[i]
  BY <1>1, <1>4
<1>10. Told(c) \in [Item -> [row : Nat, in : Nat, count : Nat]]
  BY <1>1, <1>4, <1>5
<1>11. QED
  BY <1>1, <1>7, <1>8, <1>9, <1>10

LEMMA SucceedKeeps ==
  ASSUME ConsoleIInv, NEW c \in Command, Succeed(c)
  PROVE  ConsoleIInv'
<1> DEFINE key == command[c].key
           shown == Shows(c)
           passed == {part \in shown : KeyOf(part) # key \/ Early(KeyOf(part))}
           Later(k, d) == IF k = "list"
                          THEN /\ \A i \in Item : d.rows[i].row >= known'[i].row
                               /\ "counts" \notin missed' => \A i \in Item : d.rows[i].count >= known'[i].count
                          ELSE d.in >= known'[k].in
<1>1. ConsoleTypeOK /\ ToldIsStored /\ FreshIncludes /\ ShownIsFresh /\ ResultsAreOfSelection
  BY DEF ConsoleIInv, ConsoleInv
<1>2. /\ command[c].at = "done" /\ command' = [command EXCEPT ![c] = Free] /\ known' = Told(c) /\ missed' = Missed(c)
      /\ selected' \in {selected, NoItem} /\ UNCHANGED <<page, results, stored, clicks, lost, strayed>>
      /\ query' = IF key \in Key THEN [query EXCEPT ![key] = Invalidated(key)] ELSE query
  BY DEF Succeed, bounds
<1>3. /\ shown \subseteq Part /\ command[c].on \in Item
      /\ "list" \in shown <=> command[c].kind \in RowKind
      /\ "counts" \in shown <=> command[c].kind \in CountKind
      /\ \A i \in Item : i \in shown => i = command[c].on /\ command[c].kind \notin RowKind
      /\ command[c].kind \notin RowKind => command[c].on \in shown
  <2>1. command[c].on \in Item /\ command[c].on # "list" /\ command[c].on # "counts"
    BY <1>1, <1>2, ItemAssumption DEF ConsoleTypeOK
  <2>2. "counts" \notin Item /\ "list" \notin Item /\ CountKind \cap RowKind = {}
    BY ItemAssumption DEF CountKind, RowKind
  <2>3. QED
    BY <2>1, <2>2 DEF Shows, Part, Key
<1>4. \A k \in Key : Fetching(query[k]) \in QueryState(k) /\ Fetching(query[k]).at = "sent"
  BY StatesOfKeys
<1>5. \A k \in Key : LET s == [query[k] EXCEPT !.stale = TRUE]
                     IN s \in QueryState(k) /\ s.stale /\ s.at = query[k].at /\ s.read = query[k].read
  BY <1>1 DEF ConsoleTypeOK, QueryState
<1>6. DOMAIN query' = Key /\ \A k \in Key : query'[k] = IF k = key THEN Invalidated(k) ELSE query[k]
  BY <1>1, <1>2 DEF ConsoleTypeOK
<1>7. \A k \in Key :
        /\ query'[k] \in QueryState(k)
        /\ \/ query'[k].at = "sent"
           \/ query'[k] = query[k] /\ k # key
           \/ /\ k = key /\ ~Restarts(k)
              /\ query'[k].stale /\ query'[k].at = query[k].at /\ query'[k].read = query[k].read
  <2> SUFFICES ASSUME NEW k \in Key
               PROVE  /\ query'[k] \in QueryState(k)
                      /\ \/ query'[k].at = "sent"
                         \/ query'[k] = query[k] /\ k # key
                         \/ /\ k = key /\ ~Restarts(k)
                            /\ query'[k].stale /\ query'[k].at = query[k].at /\ query'[k].read = query[k].read
    OBVIOUS
  <2>1. CASE k # key
    BY <1>1, <1>6, <2>1 DEF ConsoleTypeOK
  <2>2. CASE k = key /\ Restarts(k)
    BY <1>4, <1>6, <2>2 DEF Invalidated
  <2>3. CASE k = key /\ ~Restarts(k)
    BY <1>5, <1>6, <2>3 DEF Invalidated
  <2>4. QED
    BY <2>1, <2>2, <2>3
<1>8. missed' = {part \in missed \cup passed : query'[KeyOf(part)].at # "sent"}
  BY <1>2 DEF Missed
<1>9. ConsoleTypeOK'
  <2>1. missed' \subseteq Part
    BY <1>1, <1>3, <1>8 DEF ConsoleTypeOK
  <2>2. \A k \in Key : query'[k].at = "idle" => query'[k].read = Nothing
    BY <1>1, <1>7 DEF ConsoleTypeOK
  <2>3. command' \in [Command -> CommandState]
        /\ \A d \in Command : command'[d].at # "free" => command'[d].kind \in Kind /\ command'[d].on \in Item
    BY <1>1, <1>2, FreeIsTyped DEF ConsoleTypeOK
  <2>4. selected' \in Item \cup {NoItem}
    BY <1>1, <1>2 DEF ConsoleTypeOK
  <2>5. QED
    BY <1>1, <1>2, <1>6, <1>7, <2>1, <2>2, <2>3, <2>4, ToldIsNoMore DEF ConsoleTypeOK
<1>10. \A k \in Key : \A d \in Data(k) : k \notin shown /\ Includes(k, d) /\ query'[k].at # "sent" => Later(k, d)
  <2> SUFFICES ASSUME NEW k \in Key, NEW d \in Data(k), k \notin shown, Includes(k, d), query'[k].at # "sent"
               PROVE  Later(k, d)
    OBVIOUS
  <2>1. CASE k = "list"
    <3>1. \A i \in Item : known'[i].row = known[i].row
      BY <1>2, <1>3, <2>1, ToldIsNoMore
    <3>2. command[c].kind \in CountKind => "counts" \in missed'
      <4> SUFFICES ASSUME command[c].kind \in CountKind PROVE "counts" \in missed'
        OBVIOUS
      <4>1. "counts" \in shown /\ KeyOf("counts") = "list"
        BY <1>3 DEF KeyOf
      <4>2. "list" # key \/ Early("list")
        <5> SUFFICES ASSUME "list" = key PROVE Early("list")
          OBVIOUS
        <5>1. ~Restarts("list") /\ query'["list"].at = query["list"].at
          BY <1>7, <2>1
        <5>2. InFlight("list") /\ query["list"].data = Nothing
          BY <5>1 DEF Restarts, Active
        <5>3. QED
          BY <2>1, <5>1, <5>2 DEF InFlight, Early
      <4>3. "counts" \in passed
        BY <4>1, <4>2
      <4>4. QED
        BY <1>8, <2>1, <4>1, <4>3
    <3>3. "counts" \notin missed' => \A i \in Item : d.rows[i].count >= known'[i].count
      <4> SUFFICES ASSUME "counts" \notin missed' PROVE \A i \in Item : d.rows[i].count >= known'[i].count
        OBVIOUS
      <4>1. \A i \in Item : known'[i].count = known[i].count
        BY <1>2, <3>2, ToldIsNoMore
      <4>2. KeyOf("counts") = "list"
        BY DEF KeyOf
      <4>3. "counts" \notin missed
        BY <1>8, <2>1, <4>2
      <4>4. QED
        BY <2>1, <4>1, <4>3 DEF Includes, CountsAre
    <3>4. QED
      BY <2>1, <3>1, <3>3 DEF Includes
  <2>2. CASE k # "list"
    <3>1. k \in Item
      BY <2>2 DEF Key
    <3>2. known'[k].in = known[k].in
      BY <1>2, <1>3, <2>2, <3>1, ToldIsNoMore
    <3>3. QED
      BY <2>2, <3>2 DEF Includes
  <2>3. QED
    BY <2>1, <2>2
<1>11. FreshIncludes'
  <2> SUFFICES ASSUME NEW k \in Key \ missed'
               PROVE  /\ query'[k].at = "idle" /\ ~query'[k].stale => query'[k].data # Nothing /\ Later(k, query'[k].data)
                      /\ query'[k].at = "read" => query'[k].read # Nothing /\ Later(k, query'[k].read)
    BY DEF FreshIncludes, Includes, CountsAre
  <2>1. KeyOf(k) = k
    BY ItemAssumption DEF KeyOf, Key
  <2>2. CASE query'[k].at = "sent"
    BY <2>2
  <2>3. CASE query'[k].at # "sent" /\ k \in shown
    <3>1. k = key /\ ~Early(k)
      BY <1>8, <2>1, <2>3
    <3>2. query'[k].stale /\ query'[k].at # "read"
      BY <1>7, <2>3, <3>1 DEF Restarts, Early
    <3>3. QED
      BY <3>2
  <2>4. CASE query'[k].at # "sent" /\ k \notin shown
    <3>1. k \notin missed
      BY <1>8, <2>1, <2>4
    <3>2. /\ query[k].at = "idle" /\ ~query[k].stale => query[k].data # Nothing /\ Includes(k, query[k].data)
          /\ query[k].at = "read" => query[k].read # Nothing /\ Includes(k, query[k].read)
      BY <1>1, <3>1 DEF FreshIncludes
    <3>3. query[k].data \in Data(k) \cup {Nothing} /\ query[k].read \in Data(k) \cup {Nothing}
      BY StatesOfKeys
    <3>4. /\ query[k].at = "idle" /\ ~query[k].stale => query[k].data # Nothing /\ Later(k, query[k].data)
          /\ query[k].at = "read" => query[k].read # Nothing /\ Later(k, query[k].read)
      BY <1>10, <2>4, <3>2, <3>3
    <3>5. QED
      BY <1>7, <2>4, <3>4
  <2>5. QED
    BY <2>2, <2>3, <2>4
<1>12. ShownIsFresh'
  <2> SUFFICES ASSUME NEW k \in Key, Active(k)', query'[k].at = "idle"
               PROVE  ~query'[k].stale
    BY DEF ShownIsFresh
  <2>1. Active(k)
    BY <1>2, KeysApart DEF Active
  <2>2. query'[k] = query[k]
    BY <1>7, <2>1 DEF Restarts, InFlight
  <2>3. QED
    BY <1>1, <2>1, <2>2 DEF ShownIsFresh
<1>13. ToldIsStored'
  <2>1. \A d \in Command : command'[d].at = "done" => command'[d] = command[d] /\ command[d].at = "done"
    BY <1>1, <1>2, FreeIsTyped DEF ConsoleTypeOK
  <2>2. QED
    BY <1>1, <1>2, <2>1, ToldIsNoMore DEF ToldIsStored
<1>14. ResultsAreOfSelection'
  BY <1>1, <1>2 DEF ResultsAreOfSelection
<1>15. QED
  BY <1>9, <1>11, <1>12, <1>13, <1>14 DEF ConsoleIInv, ConsoleInv

-----------------------------------------------------------------------------
(* Every step, and the theorems.                                           *)

LEMMA ConsoleInitHolds == ASSUME ConsoleInit PROVE ConsoleIInv
<1>1. \A i \in Item : stored[i] \in Row /\ stored[i].row = 0 /\ stored[i].in = 0 /\ stored[i].count = 0
  <2>1. \A s \in Before(page) \cup {NotYet} : s \in Row /\ s.row = 0 /\ s.in = 0 /\ s.count = 0
    BY DEF ConsoleInit, Page, Before, NotYet, Row, Status, Inner
  <2>2. QED
    BY <2>1 DEF ConsoleInit
<1>2. stored \in [Item -> Row]
  BY <1>1 DEF ConsoleInit
<1>3. DOMAIN query = Key /\ \A k \in Key : /\ query[k] \in QueryState(k) /\ query[k].read = Nothing
                                           /\ query[k].at # "read" /\ query[k].stale
                                           /\ k = "list" => query[k].at = "sent"
  <2>1. \A k \in Key : Unfetched \in QueryState(k) /\ Fetching(Unfetched) \in QueryState(k)
    BY DEF Unfetched, Fetching, QueryState
  <2>2. QED
    BY <2>1 DEF ConsoleInit, Unfetched, Fetching
<1>4. ConsoleTypeOK
  <2>1. page \in Page /\ selected \in Item \cup {NoItem} /\ results \in Item \cup {NoItem} /\ missed \subseteq Part /\ strayed \in BOOLEAN
    BY DEF ConsoleInit
  <2>2. clicks \in 0..MaxCalls /\ lost \in 0..MaxLost /\ known \in [Item -> [row : Nat, in : Nat, count : Nat]]
    BY ConsoleBounds DEF ConsoleInit
  <2>3. command \in [Command -> CommandState] /\ \A c \in Command : command[c].at = "free"
    BY FreeIsTyped DEF ConsoleInit
  <2>4. QED
    BY <1>2, <1>3, <2>1, <2>2, <2>3 DEF ConsoleTypeOK
<1>5. FreshIncludes
  BY <1>3 DEF FreshIncludes
<1>6. ShownIsFresh
  BY <1>3, KeysApart DEF ConsoleInit, ShownIsFresh, Active
<1>7. ToldIsStored
  BY <1>1, FreeIsTyped DEF ConsoleInit, ToldIsStored, NoMore
<1>8. ResultsAreOfSelection
  BY DEF ConsoleInit, ResultsAreOfSelection
<1>9. QED
  BY <1>4, <1>5, <1>6, <1>7, <1>8 DEF ConsoleIInv, ConsoleInv

LEMMA ConsoleStutterKeeps == ASSUME ConsoleIInv, UNCHANGED consoleVars PROVE ConsoleIInv'
<1>1. UNCHANGED <<page, selected, results, stored, query, command, clicks, lost, known, missed, strayed>>
  BY DEF consoleVars, bounds
<1>2. ConsoleTypeOK' /\ ResultsAreOfSelection'
  BY <1>1 DEF ConsoleIInv, ConsoleInv, ConsoleTypeOK, ResultsAreOfSelection
<1>3. FreshIncludes' /\ ShownIsFresh' /\ ToldIsStored'
  BY <1>1 DEF ConsoleIInv, FreshIncludes, Includes, CountsAre, ShownIsFresh, Active, ToldIsStored
<1>4. QED
  BY <1>2, <1>3 DEF ConsoleIInv, ConsoleInv

LEMMA ConsoleNextKeeps == ASSUME ConsoleIInv, ConsoleNext PROVE ConsoleIInv'
<1>1. ASSUME NEW k \in Key, Read(k) \/ Receive(k) \/ FailFetch(k) PROVE ConsoleIInv'
  BY <1>1, FetchKeeps
<1>2. ASSUME NEW i \in Item, Select(i) \/ Finish(i) PROVE ConsoleIInv'
  BY <1>2, SelectKeeps, FinishKeeps
<1>3. ASSUME NEW c \in Command, NEW i \in Item, NEW kind \in Kind, Click(c, i, kind) PROVE ConsoleIInv'
  BY <1>3, ClickKeeps
<1>4. ASSUME NEW c \in Command, Serve(c) \/ Succeed(c) \/ ShowResults(c) \/ Refused(c) \/ LoseAnswer(c) PROVE ConsoleIInv'
  BY <1>4, ServeKeeps, SucceedKeeps, EndsKeep
<1>5. QED
  BY <1>1, <1>2, <1>3, <1>4 DEF ConsoleNext

(* What counts as fresh has every change the page was told of, what has    *)
(* been read and is on its way too, and what is shown is fresh or being    *)
(* fetched: from the invalidations of the pages and from how the query     *)
(* cache treats them.                                                      *)
THEOREM ConsoleInductive == ConsoleSpec => []ConsoleIInv
<1>1. ConsoleInit => ConsoleIInv
  BY ConsoleInitHolds
<1>2. ConsoleIInv /\ [ConsoleNext]_consoleVars => ConsoleIInv'
  BY ConsoleNextKeeps, ConsoleStutterKeeps
<1>3. QED
  BY <1>1, <1>2, PTL DEF ConsoleSpec

(* The pages' state is well typed, and search results that nobody asked    *)
(* for late are of the base they are shown under: selecting another base   *)
(* clears them (setSearchResults(null)).                                   *)
THEOREM ResultsAreOfTheBase == ConsoleSpec => []ConsoleInv
<1>1. ConsoleIInv => ConsoleInv
  BY DEF ConsoleIInv
<1>2. QED
  BY <1>1, ConsoleInductive, PTL

(* A page that has nothing on its way shows every change made from it that *)
(* it was told of, unless it was missed: invalidateQueries in every        *)
(* onSuccess, whatever was joined, started over or selected meanwhile.     *)
(* The numbers on the cards are part of that: they are missed by an upload *)
(* or a run until the list is fetched again.                               *)
THEOREM ChangesShow == ConsoleSpec => []OwnChangesShow
<1>1. ConsoleIInv => OwnChangesShow
  BY DEF ConsoleIInv, FreshIncludes, ShownIsFresh, OwnChangesShow
<1>2. QED
  BY <1>1, ConsoleInductive, PTL
=============================================================================
