----------------------------- MODULE SessionProofs -----------------------------
(* What login, logout and the refresh of tokens keep true of the tokens of a *)
(* session: the vault's refresh token is the family's last, or the one before *)
(* it, and then the vault still has the id of the request that used it.      *)
EXTENDS Session, TLAPS

\* Records by their fields; only some of the values matter here.
IsCreds(x) ==
    x \in [acct : {x.acct}, gen : Nat, scope : {x.scope}, pending : {x.pending},
           access : {x.access}, refresh : Nat \ {0}, req : Nat \cup {None}]
IsCall(c) ==
    c \in [op : {c.op}, kind : {c.kind}, stage : {c.stage}, epoch : {c.epoch}, acct : {c.acct},
           session : {c.session}, creds : {c.creds}, refused : {c.refused}, ok : {c.ok},
           strategy : {c.strategy}, rev : {c.rev}, pid : {c.pid}, tells : {c.tells}]
IsFlight(f) ==
    f \in [gen : Nat, creds : {f.creds}, stage : {"preparing", "asking", "storing"}]
Family ==
    [last : Nat \ {0}, req : Nat \cup {None}, late : BOOLEAN, expired : Nat,
     revoked : {"no", "replay", "logout"}]

CallsInv == \A c \in calls : IsCall(c)

\* A family has the id of the request that drew its last tokens.  Its access
\* tokens have expired only when time has passed.
FamilyOk(f) ==
    /\ f.last > 1 => f.req # None
    /\ f.expired <= f.last
    /\ f.expired = f.last => f.late
    /\ f.revoked = "replay" => f.late

FamiliesInv ==
    /\ families \in Seq(Family)
    /\ \A gen \in DOMAIN families : FamilyOk(families[gen])

\* The backend would grant these credentials' refresh token, if in time.
Fresh(x) ==
    /\ x.gen \in DOMAIN families
    /\ \/ x.refresh = families[x.gen].last
       \/ x.refresh + 1 = families[x.gen].last /\ x.req = families[x.gen].req

VaultInv == vault # None => IsCreds(vault) /\ Fresh(vault)

\* A flight works for what is in the vault, as long as its session is.
FlightInv(f) ==
    /\ IsFlight(f) /\ IsCreds(f.creds)
    /\ f.creds.gen = f.gen /\ f.gen \in DOMAIN families
    /\ VaultIs(f.creds) => vault.refresh = f.creds.refresh /\ vault.req = f.creds.req
    /\ f.stage # "storing" => Fresh(f.creds)
    /\ f.stage = "asking" => f.creds.req # None
    /\ f.stage = "storing" => families[f.gen].last = f.creds.refresh + 1

FlightsInv ==
    /\ \A f \in flights : FlightInv(f)
    /\ \A f, g \in flights : f.gen = g.gen => f = g

\* A login about to be saved is the last one accepted, and nothing has used
\* its tokens.
SavingInv ==
    /\ \A c, d \in calls : c.stage = "saving" /\ d.stage = "saving" => c = d
    /\ \A c \in calls : c.stage = "saving" =>
          /\ IsCreds(c.creds) /\ c.creds.refresh = 1
          /\ c.creds.gen \in DOMAIN families /\ families[c.creds.gen].last = 1
          /\ vault # None => vault.gen # c.creds.gen
          /\ \A f \in flights : f.gen # c.creds.gen

TokensInv == CallsInv /\ FamiliesInv /\ VaultInv /\ FlightsInv /\ SavingInv /\ drawn \in Nat

LEMMA TokensInit == SessionInit => TokensInv
  BY DEF SessionInit, TokensInv, CallsInv, FamiliesInv, VaultInv, FlightsInv, SavingInv

LEMMA TokensEnough == TokensInv => NeverLocksItselfOut
  BY DEF TokensInv, FamiliesInv, FamilyOk, NeverLocksItselfOut

-----------------------------------------------------------------------------
(* Steps that leave the tokens alone *)

\* No call comes to be saving.
Unsaved ==
    /\ CallsInv'
    /\ \A c \in calls' : c.stage = "saving" => c \in calls

LEMMA CallsOnly ==
    ASSUME TokensInv, Unsaved, UNCHANGED <<vault, flights, families, drawn>>
    PROVE  TokensInv'
<1>1. FamiliesInv' /\ VaultInv'
  BY DEF TokensInv, FamiliesInv, VaultInv, Fresh
<1>2. FlightsInv'
  BY DEF TokensInv, FlightsInv, FlightInv, Fresh, VaultIs
<1>3. SavingInv'
  BY DEF TokensInv, SavingInv, Unsaved
<1> QED
  BY <1>1, <1>2, <1>3 DEF TokensInv, Unsaved

LEMMA VaultCleared ==
    ASSUME TokensInv, Unsaved, vault' = None, UNCHANGED <<flights, families, drawn>>
    PROVE  TokensInv'
<1>1. FamiliesInv' /\ VaultInv'
  BY DEF TokensInv, FamiliesInv, VaultInv, Fresh
<1>2. FlightsInv'
  BY DEF TokensInv, FlightsInv, FlightInv, Fresh, VaultIs
<1>3. SavingInv'
  BY DEF TokensInv, SavingInv, Unsaved
<1> QED
  BY <1>1, <1>2, <1>3 DEF TokensInv, Unsaved

LEMMA VaultDecided ==
    ASSUME TokensInv, Unsaved, vault # None, NEW p, vault' = [vault EXCEPT !.pending = p],
           UNCHANGED <<flights, families, drawn>>
    PROVE  TokensInv'
<1>1. /\ IsCreds(vault') /\ vault'.gen = vault.gen
      /\ vault'.refresh = vault.refresh /\ vault'.req = vault.req
  BY DEF TokensInv, VaultInv, IsCreds
<1>2. FamiliesInv' /\ VaultInv'
  BY <1>1 DEF TokensInv, FamiliesInv, VaultInv, Fresh
<1>3. FlightsInv'
  BY <1>1 DEF TokensInv, FlightsInv, FlightInv, Fresh, VaultIs
<1>4. SavingInv'
  BY <1>1 DEF TokensInv, SavingInv, Unsaved
<1> QED
  BY <1>2, <1>3, <1>4 DEF TokensInv, Unsaved

\* A call moves on.
LEMMA StepUnsaved ==
    ASSUME CallsInv, NEW c, NEW c2, Step(c, c2), IsCall(c2), c2.stage # "saving"
    PROVE  Unsaved
  BY DEF CallsInv, Step, Unsaved

LEMMA GotoUnsaved ==
    ASSUME CallsInv, NEW c \in calls, NEW stage, Goto(c, stage), stage # "saving"
    PROVE  Unsaved
<1>1. LET c2 == [c EXCEPT !.stage = stage] IN IsCall(c2) /\ c2.stage # "saving"
  BY DEF CallsInv, IsCall
<1> QED
  BY <1>1, StepUnsaved DEF Goto

LEMMA AnswerUnsaved ==
    ASSUME CallsInv, NEW c \in calls, NEW ok, Answer(c, ok)
    PROVE  Unsaved
<1> DEFINE stage == IF c.tells /\ (ok \/ c.kind = "call") THEN "telling"
                    ELSE IF ok THEN "done" ELSE "failed"
           c2 == [c EXCEPT !.creds = None, !.refused = None, !.ok = ok, !.stage = stage]
<1>1. stage # "saving"
  OBVIOUS
<1>2. IsCall(c2) /\ c2.stage = stage
  BY DEF CallsInv, IsCall
<1> QED
  BY <1>1, <1>2, StepUnsaved DEF Answer

-----------------------------------------------------------------------------
(* login, logout and the first connection *)

\* A call that is new.
LEMMA AddUnsaved ==
    ASSUME CallsInv, NEW c, calls' = calls \cup {c}, IsCall(c), c.stage # "saving"
    PROVE  Unsaved
  BY DEF CallsInv, Unsaved

LEMMA LoginBeginTokens ==
    ASSUME TokensInv, NEW op, NEW acct, NEW pid, LoginBegin(op, acct, pid)
    PROVE  TokensInv'
<1> DEFINE c == [NewCall(op, "login", acct, None) EXCEPT
                    !.stage = "asking", !.epoch = epoch + 1, !.pid = pid]
<1>1. IsCall(c) /\ c.stage = "asking"
  BY DEF NewCall, IsCall
<1> QED
  BY <1>1, AddUnsaved, CallsOnly DEF LoginBegin, TokensInv

LEMMA LogoutBeginTokens ==
    ASSUME TokensInv, NEW op, NEW session, LogoutBegin(op, session)
    PROVE  TokensInv'
<1> DEFINE stage == IF Valid(session) THEN "clearing" ELSE "failed"
           c == [NewCall(op, "logout", session.acct, session) EXCEPT !.stage = stage]
<1>1. stage # "saving"
  OBVIOUS
<1>2. IsCall(c) /\ c.stage = stage
  <2> HIDE DEF stage
  <2> QED
    BY DEF NewCall, IsCall
<1> QED
  BY <1>1, <1>2, AddUnsaved, CallsOnly DEF LogoutBegin, TokensInv

LEMMA CallBeginTokens ==
    ASSUME TokensInv, NEW op, NEW tells, CallBegin(op, tells)
    PROVE  TokensInv'
<1> DEFINE stage == IF CanWrite(vault) THEN "load" ELSE "failed"
           c == [NewCall(op, "call", vault.acct, Public(vault)) EXCEPT !.tells = tells, !.stage = stage]
<1>1. stage # "saving"
  OBVIOUS
<1>2. IsCall(c) /\ c.stage = stage
  <2> HIDE DEF stage
  <2> QED
    BY DEF NewCall, IsCall
<1> QED
  BY <1>1, <1>2, AddUnsaved, CallsOnly DEF CallBegin, TokensInv

LEMMA FirstBeginTokens ==
    ASSUME TokensInv, NEW op, NEW session, NEW strategy, NEW rev, NEW pid,
           FirstBegin(op, session, strategy, rev, pid)
    PROVE  TokensInv'
<1> DEFINE stage == IF Valid(session) /\ (strategy = "use-local" => vault.scope = "full")
                    THEN "load" ELSE "failed"
           tells == strategy = "use-remote"
           c == [NewCall(op, "first", session.acct, session) EXCEPT
                    !.strategy = strategy, !.rev = rev, !.pid = pid,
                    !.tells = tells, !.stage = stage]
<1>1. stage # "saving"
  OBVIOUS
<1>2. IsCall(c) /\ c.stage = stage
  <2> HIDE DEF stage, tells
  <2> QED
    BY DEF NewCall, IsCall
<1> QED
  BY <1>1, <1>2, AddUnsaved, CallsOnly DEF FirstBegin, TokensInv

LEMMA HeardTokens ==
    ASSUME TokensInv, NEW c, Heard(c)
    PROVE  TokensInv'
<1>1. Unsaved
  BY DEF Heard, Unsaved, TokensInv, CallsInv
<1> QED
  BY <1>1, CallsOnly DEF Heard

\* The new family is the last; no call, flight or vault knows it yet.
LEMMA LoginAnsweredTokens ==
    ASSUME TokensInv, NEW c \in calls, NEW scope, LoginAnswered(c, scope)
    PROVE  TokensInv'
<1> DEFINE gen == Len(families) + 1
           creds == [acct |-> c.acct, gen |-> gen, scope |-> scope, pending |-> TRUE,
                     access |-> 1, refresh |-> 1, req |-> None]
           c2 == [c EXCEPT !.stage = "saving", !.creds = creds, !.session = Public(creds)]
<1>0. NewFamily \in Family
  BY DEF NewFamily, Family
<1>1. families' = Append(families, NewFamily) /\ FamilyOk(NewFamily)
  BY DEF LoginAnswered, NewFamily, FamilyOk
<1>2. /\ DOMAIN families = 1 .. Len(families) /\ Len(families) \in Nat
      /\ DOMAIN families' = 1 .. gen
      /\ families'[gen] = NewFamily
      /\ \A g \in DOMAIN families : g \in DOMAIN families' /\ families'[g] = families[g] /\ g # gen
  BY <1>0, <1>1 DEF TokensInv, FamiliesInv
<1>3. FamiliesInv'
  BY <1>0, <1>1, <1>2 DEF TokensInv, FamiliesInv
<1>4. UNCHANGED <<vault, flights, drawn>>
  BY DEF LoginAnswered
<1>5. VaultInv' /\ FlightsInv'
  BY <1>2, <1>4 DEF TokensInv, VaultInv, FlightsInv, FlightInv, Fresh, VaultIs
<1>6. CASE Current(c)
  <2>1. Step(c, c2)
    BY <1>6 DEF LoginAnswered
  <2>2. IsCall(c2) /\ c2.stage = "saving" /\ c2.creds = creds
    BY DEF IsCall, TokensInv, CallsInv
  <2>3. IsCreds(creds) /\ creds.refresh = 1 /\ creds.gen = gen
    BY <1>2 DEF IsCreds
  <2>4. CallsInv'
    BY <2>1, <2>2 DEF Step, TokensInv, CallsInv
  <2>5. \A d \in calls' : d.stage = "saving" => d = c2
    BY <2>1 DEF LoginAnswered, Step
  <2>6. families'[gen].last = 1 /\ gen \in DOMAIN families'
    BY <1>2 DEF NewFamily
  <2>7. vault' # None => vault'.gen # gen
    BY <1>2, <1>4 DEF TokensInv, VaultInv, Fresh
  <2>8. \A f \in flights' : f.gen # gen
    BY <1>2, <1>4 DEF TokensInv, FlightsInv, FlightInv
  <2>9. SavingInv'
    BY <2>2, <2>3, <2>5, <2>6, <2>7, <2>8 DEF SavingInv
  <2> QED
    BY <1>3, <1>4, <1>5, <2>4, <2>9 DEF TokensInv
<1>7. CASE ~Current(c)
  <2>1. Unsaved
    BY <1>7, AnswerUnsaved DEF LoginAnswered, TokensInv
  <2>2. SavingInv'
    BY <1>2, <1>4, <2>1 DEF SavingInv, Unsaved, TokensInv
  <2> QED
    BY <1>3, <1>4, <1>5, <2>1, <2>2 DEF TokensInv, Unsaved
<1> QED
  BY <1>6, <1>7

LEMMA LoginSaveTokens ==
    ASSUME TokensInv, NEW c \in calls, LoginSave(c)
    PROVE  TokensInv'
<1>1. /\ c.stage = "saving" /\ vault' = c.creds
      /\ UNCHANGED <<flights, families, drawn>>
  BY DEF LoginSave
<1>2. Unsaved
  BY GotoUnsaved DEF LoginSave, TokensInv
<1>3. \A d \in calls' : d.stage # "saving"
  <2>1. LET c2 == [c EXCEPT !.stage = "saved"] IN c2.stage = "saved" /\ calls' = (calls \ {c}) \cup {c2}
    BY DEF LoginSave, Goto, Step, TokensInv, CallsInv, IsCall
  <2> QED
    BY <1>1, <2>1 DEF TokensInv, SavingInv
<1>4. FamiliesInv' /\ VaultInv'
  BY <1>1 DEF TokensInv, FamiliesInv, VaultInv, SavingInv, Fresh
<1>5. FlightsInv'
  BY <1>1 DEF TokensInv, FlightsInv, FlightInv, SavingInv, Fresh, VaultIs
<1>6. SavingInv'
  BY <1>3 DEF SavingInv
<1> QED
  BY <1>1, <1>2, <1>4, <1>5, <1>6 DEF TokensInv, Unsaved

\* What else a login does, and what a logout does before it tells the backend.
LEMMA LoginGoesOnTokens ==
    ASSUME TokensInv, NEW c \in calls,
           \/ LoginRefused(c) \/ LoginSaved(c) \/ LoginActivate(c) \/ LoginActivated(c)
           \/ LoginUndo(c) \/ LogoutRead(c) \/ LogoutUndo(c)
           \/ \E ok \in BOOLEAN : LoginPulled(c, ok)
    PROVE  TokensInv'
<1>1. UNCHANGED <<vault, flights, families, drawn>>
  BY DEF LoginRefused, LoginSaved, LoginActivate, LoginActivated, LoginUndo, LogoutRead,
         LogoutUndo, LoginPulled
<1>2. CASE LogoutRead(c)
  <2>1. LET c2 == [c EXCEPT !.stage = "undo", !.pid = meta.pid]
        IN IsCall(c2) /\ c2.stage # "saving"
    BY DEF TokensInv, CallsInv, IsCall
  <2>2. Unsaved
    BY <1>2, <2>1, StepUnsaved, GotoUnsaved DEF LogoutRead, TokensInv
  <2> QED
    BY <1>1, <2>2, CallsOnly
<1>3. CASE ~LogoutRead(c)
  <2>1. \/ \E ok : Answer(c, ok)
        \/ \E stage : stage # "saving" /\ Goto(c, stage)
    BY <1>3 DEF LoginRefused, LoginSaved, LoginActivate, LoginActivated, LoginUndo,
                LogoutUndo, LoginPulled
  <2>2. Unsaved
    BY <2>1, GotoUnsaved, AnswerUnsaved DEF TokensInv
  <2> QED
    BY <1>1, <2>2, CallsOnly
<1> QED
  BY <1>2, <1>3

LEMMA ClearTokens ==
    ASSUME TokensInv, NEW c \in calls, LoginClear(c) \/ LogoutClear(c)
    PROVE  TokensInv'
<1>1. Unsaved
  BY GotoUnsaved, AnswerUnsaved DEF LoginClear, LogoutClear, TokensInv
<1>2. /\ vault' = None \/ vault' = vault
      /\ UNCHANGED <<flights, families, drawn>>
  BY DEF LoginClear, LogoutClear
<1> QED
  BY <1>1, <1>2, VaultCleared, CallsOnly

\* Time and a logout change a family, but neither its last tokens nor their
\* request.
LEMMA SeqExcept ==
    ASSUME NEW S, NEW s \in Seq(S), NEW i \in DOMAIN s, NEW x \in S
    PROVE  LET s2 == [s EXCEPT ![i] = x]
           IN /\ s2 \in Seq(S) /\ DOMAIN s2 = DOMAIN s
              /\ s2[i] = x /\ \A j \in DOMAIN s : j # i => s2[j] = s[j]
  OBVIOUS

LEMMA FamilyMarked ==
    ASSUME TokensInv, Unsaved, UNCHANGED <<vault, flights, drawn>>,
           NEW gen \in DOMAIN families, NEW f \in Family, FamilyOk(f),
           f.last = families[gen].last, f.req = families[gen].req,
           families' = [families EXCEPT ![gen] = f]
    PROVE  TokensInv'
<1>1. /\ families' \in Seq(Family) /\ DOMAIN families' = DOMAIN families
      /\ families'[gen] = f /\ \A g \in DOMAIN families : g # gen => families'[g] = families[g]
  BY SeqExcept DEF TokensInv, FamiliesInv
<1>2. FamiliesInv'
  BY <1>1 DEF TokensInv, FamiliesInv
<1>3. \A g \in DOMAIN families :
         families'[g].last = families[g].last /\ families'[g].req = families[g].req
  BY <1>1
<1>4. VaultInv'
  BY <1>1, <1>3 DEF TokensInv, VaultInv, Fresh
<1>5. FlightsInv'
  BY <1>1, <1>3 DEF TokensInv, FlightsInv, FlightInv, Fresh, VaultIs
<1>6. SavingInv'
  BY <1>1, <1>3 DEF TokensInv, SavingInv, Unsaved
<1> QED
  BY <1>2, <1>4, <1>5, <1>6 DEF TokensInv, Unsaved

LEMMA LogoutTellTokens ==
    ASSUME TokensInv, NEW c \in calls, NEW ok, LogoutTell(c, ok)
    PROVE  TokensInv'
<1> DEFINE gen == c.session.gen
           f == [families[gen] EXCEPT !.revoked = "logout"]
<1>1. Unsaved /\ UNCHANGED <<vault, flights, drawn>>
  BY AnswerUnsaved DEF LogoutTell, TokensInv
<1>2. families' = families \/ families' = [families EXCEPT ![gen] = f]
  BY DEF LogoutTell
<1>3. CASE families' = families
  BY <1>1, <1>3, CallsOnly
<1>4. CASE gen \in DOMAIN families /\ families' = [families EXCEPT ![gen] = f]
  <2>1. families[gen] \in Family /\ FamilyOk(families[gen])
    BY <1>4 DEF TokensInv, FamiliesInv
  <2>2. /\ f \in Family /\ f.last = families[gen].last /\ f.req = families[gen].req
        /\ f.expired = families[gen].expired /\ f.late = families[gen].late
        /\ f.revoked = "logout"
    BY <2>1 DEF Family
  <2>3. FamilyOk(f)
    BY <2>1, <2>2 DEF FamilyOk
  <2> QED
    BY <1>1, <1>4, <2>2, <2>3, FamilyMarked
<1>5. CASE gen \notin DOMAIN families /\ families' = [families EXCEPT ![gen] = f]
  <2>1. families' = families
    BY <1>5 DEF TokensInv, FamiliesInv
  <2> QED
    BY <1>1, <2>1, CallsOnly
<1> QED
  BY <1>2, <1>3, <1>4, <1>5

LEMMA TimePassesTokens ==
    ASSUME TokensInv, NEW gen, NEW long, TimePasses(gen, long)
    PROVE  TokensInv'
<1> DEFINE old == families[gen]
           expired == IF long THEN old.last ELSE old.expired
           f == [old EXCEPT !.late = TRUE, !.expired = expired]
<1>1. gen \in DOMAIN families
  BY DEF TimePasses
<1>2. old \in Family /\ FamilyOk(old)
  BY <1>1 DEF TokensInv, FamiliesInv
<1>3. expired \in Nat /\ expired <= old.last
  BY <1>2 DEF Family, FamilyOk
<1>4. families' = [families EXCEPT ![gen] = f]
  BY DEF TimePasses
<1>5. Unsaved /\ UNCHANGED <<vault, flights, drawn>>
  BY DEF TimePasses, memory, Unsaved, TokensInv, CallsInv
<1> HIDE DEF expired
<1>6. /\ f \in Family /\ f.last = old.last /\ f.req = old.req
      /\ f.expired = expired /\ f.late
  BY <1>2, <1>3 DEF Family
<1>7. FamilyOk(f)
  BY <1>2, <1>3, <1>6 DEF FamilyOk
<1> QED
  BY <1>1, <1>4, <1>5, <1>6, <1>7, FamilyMarked

-----------------------------------------------------------------------------
(* Calls with a token *)

LEMMA CallStepTokens ==
    ASSUME TokensInv, NEW c \in calls,
           \/ Denied(c) \/ Use(c) \/ FirstRefused(c)
           \/ \E ok \in BOOLEAN : Served(c, ok)
    PROVE  TokensInv'
<1>1. UNCHANGED <<vault, flights, families, drawn>>
  BY DEF Denied, Use, FirstRefused, Served
<1>2. /\ LET c2 == [c EXCEPT !.creds = vault, !.stage = "sent"]
         IN IsCall(c2) /\ c2.stage # "saving"
      /\ LET c2 == [c EXCEPT !.stage = "load", !.refused = c.creds.access]
         IN IsCall(c2) /\ c2.stage # "saving"
  BY DEF TokensInv, CallsInv, IsCall
<1>3. CASE Use(c)
  <2>1. Unsaved
    BY <1>2, <1>3, StepUnsaved DEF Use, TokensInv
  <2> QED
    BY <1>1, <2>1, CallsOnly
<1>4. CASE ~Use(c)
  <2>1. \/ \E ok : Answer(c, ok)
        \/ Goto(c, "writing")
        \/ Step(c, [c EXCEPT !.stage = "load", !.refused = c.creds.access])
    BY <1>4 DEF Denied, FirstRefused, Served
  <2>2. Unsaved
    BY <1>2, <2>1, StepUnsaved, GotoUnsaved, AnswerUnsaved DEF TokensInv
  <2> QED
    BY <1>1, <2>2, CallsOnly
<1> QED
  BY <1>3, <1>4

LEMMA FirstWriteTokens ==
    ASSUME TokensInv, NEW c \in calls, NEW rev, NEW pid, NEW newPid, FirstWrite(c, rev, pid, newPid)
    PROVE  TokensInv'
<1>1. Unsaved
  BY GotoUnsaved DEF FirstWrite, TokensInv
<1> QED
  BY <1>1, CallsOnly DEF FirstWrite

LEMMA FirstCompleteTokens ==
    ASSUME TokensInv, NEW c \in calls, FirstComplete(c)
    PROVE  TokensInv'
<1>1. Unsaved
  BY AnswerUnsaved DEF FirstComplete, TokensInv
<1>2. /\ UNCHANGED <<flights, families, drawn>>
      /\ \/ vault' = vault
         \/ vault # None /\ vault' = [vault EXCEPT !.pending = FALSE]
  BY DEF FirstComplete, VaultIs
<1> QED
  BY <1>1, <1>2, CallsOnly, VaultDecided

LEMMA EvictTokens ==
    ASSUME TokensInv, Evict
    PROVE  TokensInv'
<1>1. Unsaved
  <2>1. \A c \in calls : LET c2 == [c EXCEPT !.stage = "failed"] IN IsCall(c2) /\ c2.stage # "saving"
    BY DEF TokensInv, CallsInv, IsCall
  <2> QED
    BY <2>1 DEF Evict, Unsaved, TokensInv, CallsInv
<1>2. flights' = {} /\ UNCHANGED <<vault, families, drawn>>
  BY DEF Evict
<1>3. FamiliesInv' /\ VaultInv' /\ FlightsInv'
  BY <1>2 DEF TokensInv, FamiliesInv, VaultInv, Fresh, FlightsInv
<1>4. SavingInv'
  BY <1>1, <1>2 DEF TokensInv, SavingInv, Unsaved
<1> QED
  BY <1>1, <1>2, <1>3, <1>4 DEF TokensInv, Unsaved

\* A refresh starts a flight from the vault, or joins the one there is.
LEMMA RefreshTokens ==
    ASSUME TokensInv, NEW c \in calls, Refresh(c)
    PROVE  TokensInv'
<1> DEFINE f == [gen |-> vault.gen, creds |-> vault, stage |-> "preparing"]
<1>1. /\ UNCHANGED <<vault, families, drawn>>
      /\ vault # None
      /\ \/ flights' = flights
         \/ ~(\E g \in flights : g.gen = vault.gen) /\ flights' = flights \cup {f}
  BY DEF Refresh, Allowed, Valid, VaultIs
<1>2. Unsaved
  BY GotoUnsaved, AnswerUnsaved DEF Refresh, TokensInv
<1>3. CASE flights' = flights
  BY <1>1, <1>2, <1>3, CallsOnly
<1>4. CASE ~(\E g \in flights : g.gen = vault.gen) /\ flights' = flights \cup {f}
  <2>1. IsCreds(vault) /\ Fresh(vault)
    BY <1>1 DEF TokensInv, VaultInv
  <2>2. FlightInv(f)
    BY <2>1 DEF FlightInv, IsFlight, IsCreds, Fresh
  <2>3. \A g \in flights' : FlightInv(g)
    BY <1>4, <2>2 DEF TokensInv, FlightsInv
  <2>4. FlightsInv'
    BY <1>1, <1>4, <2>3 DEF TokensInv, FlightsInv, FlightInv, Fresh, VaultIs
  <2>5. FamiliesInv' /\ VaultInv'
    BY <1>1 DEF TokensInv, FamiliesInv, VaultInv, Fresh
  <2>6. SavingInv'
    BY <1>1, <1>2, <1>4 DEF TokensInv, SavingInv, Unsaved
  <2> QED
    BY <1>1, <1>2, <2>4, <2>5, <2>6 DEF TokensInv, Unsaved
<1> QED
  BY <1>1, <1>3, <1>4

-----------------------------------------------------------------------------
(* The flights *)

LEMMA LandedUnsaved ==
    ASSUME CallsInv, NEW f, NEW creds, Landed(f, creds)
    PROVE  Unsaved
<1> DEFINE moved(c) == [c EXCEPT !.stage = IF creds = None THEN "failed" ELSE "sent",
                                 !.creds = IF creds = None THEN @ ELSE creds]
<1>1. \A c \in calls : IsCall(moved(c)) /\ moved(c).stage # "saving"
  BY DEF CallsInv, IsCall
<1>2. \A c2 \in calls' : c2 \in calls \/ \E c \in calls : c2 = moved(c)
  BY DEF Landed
<1> QED
  BY <1>1, <1>2 DEF CallsInv, Unsaved

\* A flight that ends leaves nothing the others need.
LEMMA FlightEnds ==
    ASSUME TokensInv, NEW f, Unsaved, flights' = flights \ {f}, UNCHANGED <<vault, families, drawn>>
    PROVE  TokensInv'
<1>1. FamiliesInv' /\ VaultInv'
  BY DEF TokensInv, FamiliesInv, VaultInv, Fresh
<1>2. FlightsInv'
  BY DEF TokensInv, FlightsInv, FlightInv, Fresh, VaultIs
<1>3. SavingInv'
  BY DEF TokensInv, SavingInv, Unsaved
<1> QED
  BY <1>1, <1>2, <1>3 DEF TokensInv, Unsaved

\* A flight has written to the vault what it goes on with (creds).
LEMMA FlightWrites ==
    ASSUME TokensInv, NEW f \in flights, NEW creds, Unsaved, families' = families, drawn' \in Nat,
           Replaceable(f), Replace(creds),
           IsCreds(creds), creds.gen = f.gen, Fresh(creds),
           \/ flights' = flights \ {f}
           \/ /\ creds.req # None
              /\ flights' = (flights \ {f}) \cup {[f EXCEPT !.stage = "asking", !.creds = creds]}
    PROVE  TokensInv'
<1> DEFINE f2 == [f EXCEPT !.stage = "asking", !.creds = creds]
<1>0. FlightInv(f) /\ vault # None /\ vault.gen = f.gen
  BY DEF TokensInv, FlightsInv, FlightInv, Replaceable, VaultIs
<1>1. /\ IsCreds(vault') /\ vault'.gen = f.gen
      /\ vault'.refresh = creds.refresh /\ vault'.req = creds.req
  BY DEF Replace, IsCreds
<1>2. FamiliesInv' /\ VaultInv'
  BY <1>1 DEF TokensInv, FamiliesInv, VaultInv, Fresh
<1>3. \A g \in flights \ {f} : FlightInv(g)' /\ g.gen # f.gen
  BY <1>1 DEF TokensInv, FlightsInv, FlightInv, Fresh, VaultIs
<1>4. /\ IsFlight(f2) /\ f2.gen = f.gen /\ f2.creds = creds /\ f2.stage = "asking"
  BY <1>0 DEF FlightInv, IsFlight
<1>5. creds.req # None => FlightInv(f2)'
  BY <1>0, <1>1, <1>4 DEF FlightInv, Fresh, VaultIs
<1>6. \A g \in flights' : g \in flights \ {f} \/ (g = f2 /\ creds.req # None)
  OBVIOUS
<1> HIDE DEF f2
<1>7. \A g \in flights' : FlightInv(g)'
  BY <1>3, <1>5, <1>6
<1>8. \A g, h \in flights' : g.gen = h.gen => g = h
  BY <1>3, <1>4, <1>6 DEF TokensInv, FlightsInv
<1>9. SavingInv'
  <2>1. \A c \in calls' : c.stage = "saving" => c \in calls
    BY DEF Unsaved
  <2>2. \A g \in flights' : g.gen = f.gen \/ g \in flights
    BY <1>4, <1>6
  <2> QED
    BY <1>0, <1>1, <2>1, <2>2 DEF TokensInv, SavingInv
<1>10. FlightsInv'
  BY <1>7, <1>8 DEF FlightsInv
<1> QED
  BY <1>2, <1>9, <1>10 DEF TokensInv, Unsaved

LEMMA FlightPrepareTokens ==
    ASSUME TokensInv, NEW f \in flights, FlightPrepare(f)
    PROVE  TokensInv'
<1> DEFINE creds == [f.creds EXCEPT !.req = RequestId(f.creds)]
<1>0. FlightInv(f) /\ f.stage = "preparing" /\ IsCreds(f.creds) /\ Fresh(f.creds)
  BY DEF FlightPrepare, TokensInv, FlightsInv, FlightInv
<1>1. CASE Replaceable(f)
  <2>1. /\ RequestId(f.creds) \in Nat /\ RequestId(f.creds) # None
        /\ f.creds.req # None => RequestId(f.creds) = f.creds.req
    BY <1>0, NoneAssumption DEF RequestId, IsCreds, TokensInv
  <2>2. /\ IsCreds(creds) /\ creds.gen = f.creds.gen /\ creds.refresh = f.creds.refresh
        /\ creds.req = RequestId(f.creds)
    BY <1>0, <2>1 DEF IsCreds
  <2>3. families[f.creds.gen] \in Family /\ FamilyOk(families[f.creds.gen])
    BY <1>0 DEF TokensInv, FamiliesInv, Fresh
  <2>4. Fresh(creds)
    BY <1>0, <2>1, <2>2, <2>3 DEF Fresh, FamilyOk, Family, IsCreds
  <2>5. /\ flights' = (flights \ {f}) \cup {[f EXCEPT !.stage = "asking", !.creds = creds]}
        /\ Replace(creds) /\ families' = families /\ calls' = calls /\ drawn' \in Nat
    BY <1>1, <2>1, <2>2 DEF FlightPrepare, TokensInv
  <2>6. Unsaved
    BY <2>5 DEF Unsaved, TokensInv, CallsInv
  <2> HIDE DEF creds
  <2> QED
    BY <1>0, <1>1, <2>1, <2>2, <2>4, <2>5, <2>6, FlightWrites DEF FlightInv
<1>2. CASE ~Replaceable(f)
  <2>1. Unsaved
    BY <1>2, LandedUnsaved DEF FlightPrepare, TokensInv
  <2> QED
    BY <1>2, <2>1, FlightEnds DEF FlightPrepare, Landed
<1> QED
  BY <1>1, <1>2

LEMMA FlightStoreTokens ==
    ASSUME TokensInv, NEW f \in flights, FlightStore(f)
    PROVE  TokensInv'
<1> DEFINE next == f.creds.refresh + 1
           creds == [f.creds EXCEPT !.refresh = next, !.access = next, !.req = None]
<1>0. /\ FlightInv(f) /\ IsCreds(f.creds) /\ f.creds.gen = f.gen /\ f.gen \in DOMAIN families
      /\ families[f.gen].last = next
  BY DEF FlightStore, TokensInv, FlightsInv, FlightInv
<1>1. next \in Nat \ {0}
  BY <1>0 DEF IsCreds
<1>2. families' = families /\ drawn' = drawn
  BY DEF FlightStore
<1>3. \/ Replaceable(f) /\ Replace(creds) /\ Landed(f, creds)
      \/ vault' = vault /\ Landed(f, None)
  BY DEF FlightStore
<1> HIDE DEF next
<1>4. IsCreds(creds) /\ creds.gen = f.gen /\ creds.refresh = next
  BY <1>0, <1>1 DEF IsCreds
<1> HIDE DEF creds
<1>5. Fresh(creds)
  BY <1>0, <1>4 DEF Fresh
<1>6. Unsaved
  BY <1>3, LandedUnsaved DEF TokensInv
<1>7. flights' = flights \ {f}
  BY <1>3 DEF Landed
<1> QED
  BY <1>2, <1>3, <1>4, <1>5, <1>6, <1>7, FlightWrites, FlightEnds DEF TokensInv

\* A refresh reaches the backend: the family then has the request's id and one
\* token more than the request's, unless it had been revoked, or time has
\* passed.
LEMMA RotateKeeps ==
    ASSUME NEW f \in Family, FamilyOk(f), NEW k \in Nat \ {0}, NEW req \in Nat, req # None,
           k = f.last \/ (k + 1 = f.last /\ req = f.req)
    PROVE  LET g == RotateRefreshToken(f, k, req)
           IN /\ g \in Family /\ FamilyOk(g)
              /\ k = g.last \/ (k + 1 = g.last /\ req = g.req)
              /\ Granted(f, k, req) => g.last = k + 1
<1>1. CASE f.last # k /\ Recoverable(f, k, req)
  BY <1>1 DEF RotateRefreshToken, Granted, Recoverable
<1>2. CASE f.last # k /\ ~Recoverable(f, k, req)
  <2> DEFINE why == IF f.revoked = "no" THEN "replay" ELSE f.revoked
             g == [f EXCEPT !.revoked = why]
  <2>1. why \in {"no", "replay", "logout"} /\ (why = "replay" => f.revoked \in {"no", "replay"})
    BY DEF Family
  <2>2. f.revoked = "no" => f.late
    BY <1>2 DEF Recoverable, FamilyOk, Family
  <2> HIDE DEF why
  <2>3. /\ g \in Family /\ g.last = f.last /\ g.req = f.req /\ g.late = f.late
        /\ g.expired = f.expired /\ g.revoked = why
    BY <2>1 DEF Family
  <2>4. FamilyOk(g)
    BY <2>1, <2>2, <2>3 DEF FamilyOk
  <2>5. RotateRefreshToken(f, k, req) = g /\ ~Granted(f, k, req)
    BY <1>2 DEF RotateRefreshToken, Granted, why
  <2> QED
    BY <1>2, <2>3, <2>4, <2>5
<1>3. CASE f.last = k /\ f.revoked # "no"
  BY <1>3 DEF RotateRefreshToken, Granted
<1>4. CASE f.last = k /\ f.revoked = "no"
  <2> DEFINE next == k + 1
             g == [f EXCEPT !.last = next, !.req = req, !.late = FALSE]
  <2>1. RotateRefreshToken(f, k, req) = g
    BY <1>4 DEF RotateRefreshToken
  <2>2. next \in Nat \ {0} /\ next = k + 1 /\ f.expired < next
    BY <1>4 DEF FamilyOk, Family
  <2> HIDE DEF next
  <2>3. /\ g \in Family /\ g.last = next /\ g.req = req /\ g.late = FALSE
        /\ g.expired = f.expired /\ g.revoked = f.revoked
    BY <2>2 DEF Family
  <2> HIDE DEF g
  <2>4. FamilyOk(g)
    BY <1>4, <2>2, <2>3 DEF FamilyOk, Family
  <2> QED
    BY <2>1, <2>2, <2>3, <2>4
<1> QED
  BY <1>1, <1>2, <1>3, <1>4

LEMMA FlightAskTokens ==
    ASSUME TokensInv, NEW f \in flights, NEW lost, FlightAsk(f, lost)
    PROVE  TokensInv'
<1> DEFINE old == families[f.gen]
           new == RotateRefreshToken(old, f.creds.refresh, f.creds.req)
           f2 == [f EXCEPT !.stage = "storing"]
<1>0. /\ FlightInv(f) /\ f.stage = "asking" /\ f.gen \in DOMAIN families
      /\ IsCreds(f.creds) /\ f.creds.gen = f.gen /\ Fresh(f.creds) /\ f.creds.req # None
  BY DEF FlightAsk, TokensInv, FlightsInv, FlightInv
<1>1. old \in Family /\ FamilyOk(old)
  BY <1>0 DEF TokensInv, FamiliesInv
<1>2. f.creds.refresh \in Nat \ {0} /\ f.creds.req \in Nat
  BY <1>0 DEF IsCreds
<1>3. f.creds.refresh = old.last \/ (f.creds.refresh + 1 = old.last /\ f.creds.req = old.req)
  BY <1>0 DEF Fresh
<1>4. /\ new \in Family /\ FamilyOk(new)
      /\ \/ f.creds.refresh = new.last
         \/ f.creds.refresh + 1 = new.last /\ f.creds.req = new.req
      /\ Granted(old, f.creds.refresh, f.creds.req) => new.last = f.creds.refresh + 1
  BY <1>0, <1>1, <1>2, <1>3, RotateKeeps
<1>5. /\ families' = [families EXCEPT ![f.gen] = new]
      /\ vault' = vault /\ drawn' = drawn
      /\ \/ /\ Granted(old, f.creds.refresh, f.creds.req)
            /\ flights' = (flights \ {f}) \cup {f2} /\ calls' = calls
         \/ Landed(f, None)
  BY DEF FlightAsk
<1> HIDE DEF new, old
<1>6. /\ families' \in Seq(Family) /\ DOMAIN families' = DOMAIN families
      /\ families'[f.gen] = new
      /\ \A g \in DOMAIN families : g # f.gen => families'[g] = families[g]
  BY <1>0, <1>4, <1>5, SeqExcept DEF TokensInv, FamiliesInv
<1>7. FamiliesInv'
  BY <1>4, <1>6 DEF TokensInv, FamiliesInv
<1>8. VaultInv'
  <2>1. CASE vault # None /\ vault.gen = f.gen
    BY <1>0, <1>4, <1>5, <1>6, <2>1 DEF TokensInv, VaultInv, FlightInv, VaultIs, Fresh
  <2>2. CASE ~(vault # None /\ vault.gen = f.gen)
    BY <1>5, <1>6, <2>2 DEF TokensInv, VaultInv, Fresh
  <2> QED
    BY <2>1, <2>2
<1>9. \A g \in flights \ {f} : FlightInv(g)' /\ g.gen # f.gen
  BY <1>5, <1>6 DEF TokensInv, FlightsInv, FlightInv, Fresh, VaultIs
<1>10. /\ IsFlight(f2) /\ f2.gen = f.gen /\ f2.creds = f.creds /\ f2.stage = "storing"
  BY <1>0 DEF FlightInv, IsFlight
<1>11. \A g \in flights' : \/ g \in flights \ {f}
                           \/ g = f2 /\ Granted(old, f.creds.refresh, f.creds.req)
  BY <1>5 DEF Landed
<1> HIDE DEF f2
<1>12. Granted(old, f.creds.refresh, f.creds.req) => FlightInv(f2)'
  BY <1>0, <1>4, <1>5, <1>6, <1>10 DEF FlightInv, VaultIs
<1>13. FlightsInv'
  BY <1>9, <1>10, <1>11, <1>12 DEF TokensInv, FlightsInv
<1>14. Unsaved
  BY <1>5, LandedUnsaved DEF TokensInv, Unsaved, CallsInv
<1>15. SavingInv'
  <2>1. \A g \in flights' : g.gen = f.gen \/ g \in flights
    BY <1>10, <1>11
  <2> QED
    BY <1>0, <1>5, <1>6, <1>14, <2>1 DEF TokensInv, SavingInv, Unsaved
<1> QED
  BY <1>5, <1>7, <1>8, <1>13, <1>14, <1>15 DEF TokensInv, Unsaved

-----------------------------------------------------------------------------
(* Together *)

LEMMA SessionStepTokens ==
    ASSUME TokensInv, NEW c \in calls, SessionStep(c)
    PROVE  TokensInv'
  BY LoginAnsweredTokens, LoginSaveTokens, LoginGoesOnTokens, ClearTokens, LogoutTellTokens,
     CallStepTokens, FirstCompleteTokens, RefreshTokens DEF SessionStep

LEMMA FlightStepTokens ==
    ASSUME TokensInv, NEW f \in flights, FlightStep(f)
    PROVE  TokensInv'
  BY FlightPrepareTokens, FlightAskTokens, FlightStoreTokens DEF FlightStep

LEMMA NothingOfTheSession ==
    ASSUME TokensInv, UNCHANGED sessionVars
    PROVE  TokensInv'
<1>1. Unsaved
  BY DEF Unsaved, TokensInv, CallsInv, sessionVars, memory
<1> QED
  BY <1>1, CallsOnly DEF sessionVars, memory

-----------------------------------------------------------------------------
(* The session is whole *)

\* A login from its request to its metadata row; while it writes; once its
\* credentials have been in the vault.  A logout after it has cleared the vault.
LoggingIn == {"asking", "saving", "saved", "pulling", "activating", "activated"}
Writing == {"saving", "activating"}
PutIn == {"saved", "pulling", "activating", "activated"}
Leaving == {"reading", "undo", "leaving"}

\* A call that will give the vault's session its row, or take it out of the
\* vault.
Settling(c) ==
    \/ c.stage \in {"saved", "pulling", "activating", "undoing"}
    \/ c.kind = "login" /\ c.stage = "clearing"

\* A login that is current, or that is about to write its row, has not been
\* replaced in the vault.
CallWhole(c) ==
    /\ c.stage \in LoggingIn => c.epoch \in 0 .. epoch /\ c.acct \in Nat /\ c.pid \in Nat
    /\ c.stage \in LoggingIn \cup {"undoing"} => c.kind = "login"
    /\ c.stage = "saving" => c.creds.acct = c.acct /\ c.creds.pending
    /\ c.stage \in PutIn => c.creds.gen \in DOMAIN families
    /\ c.stage \in PutIn /\ VaultIs(c.creds) => vault.acct = c.acct
    /\ (c.stage \in PutIn /\ Current(c)) \/ c.stage = "activating" => vault = None \/ VaultIs(c.creds)
    /\ c.stage \in Leaving => c.session.gen \in DOMAIN families /\ ~VaultIs(c.session)
    /\ c.stage = "completing" => c.session.gen \in decided

\* One login writes at a time, and it is later than those that have.
PairWhole(c, d) ==
    /\ c.stage \in LoggingIn /\ d.stage \in LoggingIn => c.epoch # d.epoch
    /\ ~(c.stage \in Writing /\ d.stage \in Writing)
    /\ c.stage \in Writing /\ d.stage \in PutIn => d.epoch < c.epoch
    /\ c.stage = "saving" /\ d.stage \in PutIn => d.creds.gen # c.creds.gen
    /\ c.stage = "saving" /\ d.stage \in Leaving => d.session.gen # c.creds.gen

FlightsWhole == \A f \in flights : VaultIs(f.creds) => vault.acct = f.creds.acct

VaultWhole == vault # None /\ ~vault.pending => vault.gen \in decided

RowWhole ==
    /\ meta # None => meta \in [acct : Nat, gen : Nat, pid : Nat]
    /\ ~evicted /\ vault # None =>
          MetaIs(vault) \/ \E c \in calls : Settling(c) /\ VaultIs(c.creds)

CallsWhole ==
    /\ \A c \in calls : CallWhole(c)
    /\ \A c, d \in calls : c # d => PairWhole(c, d)

WholeInv == TokensInv /\ epoch \in Nat /\ CallsWhole /\ FlightsWhole /\ VaultWhole /\ RowWhole

LEMMA WholeInit == SessionInit => WholeInv
  BY TokensInit DEF SessionInit, WholeInv, CallsWhole, FlightsWhole, VaultWhole, RowWhole

LEMMA WholeEnough == WholeInv => SessionIsWhole
<1>1. \A c : Over(c) => ~Settling(c)
  BY DEF Over, Settling
<1> QED
  BY <1>1 DEF WholeInv, VaultWhole, RowWhole, SessionIsWhole, CanWrite

\* What a step leaves to the calls it does not concern.
Grows ==
    /\ epoch' \in Nat /\ epoch <= epoch'
    /\ DOMAIN families \subseteq DOMAIN families'
    /\ decided \subseteq decided'
    /\ vault' = None \/ (vault # None /\ vault'.gen = vault.gen /\ vault'.acct = vault.acct)

LEMMA OthersWhole ==
    ASSUME epoch \in Nat, Grows, NEW c, CallWhole(c)
    PROVE  CallWhole(c)'
<1>1. VaultIs(c.creds)' => VaultIs(c.creds) /\ vault'.acct = vault.acct
  BY DEF Grows, VaultIs
<1>2. VaultIs(c.session)' => VaultIs(c.session)
  BY DEF Grows, VaultIs
<1>3. c.epoch \in 0 .. epoch => c.epoch \in 0 .. epoch' /\ (Current(c)' => Current(c))
  BY DEF Grows, Current
<1>4. vault = None \/ VaultIs(c.creds) => vault' = None \/ VaultIs(c.creds)'
  BY DEF Grows, VaultIs
<1>5. c.stage \in PutIn => c.stage \in LoggingIn
  BY DEF PutIn, LoggingIn
<1> QED
  BY <1>1, <1>2, <1>3, <1>4, <1>5 DEF CallWhole, Grows

\* One call comes, or moves on.
LEMMA ComesWhole ==
    ASSUME WholeInv, Grows, NEW c2, NEW D \in SUBSET calls, calls' = D \cup {c2},
           CallWhole(c2)', \A d \in D : PairWhole(c2, d) /\ PairWhole(d, c2)
    PROVE  CallsWhole'
<1>1. \A d \in D : CallWhole(d)'
  BY OthersWhole DEF WholeInv, CallsWhole
<1>2. \A c, d \in D : c # d => PairWhole(c, d)
  BY DEF WholeInv, CallsWhole
<1> QED
  BY <1>1, <1>2 DEF CallsWhole

\* The calls the invariant speaks of.
Watched(c) == c.stage \in LoggingIn \cup Leaving \cup {"undoing", "completing"}

LEMMA UnwatchedWhole ==
    ASSUME NEW c, ~Watched(c)
    PROVE  CallWhole(c)' /\ \A d : PairWhole(c, d) /\ PairWhole(d, c)
  BY DEF Watched, CallWhole, PairWhole, LoggingIn, Writing, PutIn, Leaving

LEMMA QuietWhole ==
    ASSUME WholeInv, Grows, \A c \in calls' : c \in calls \/ ~Watched(c)
    PROVE  CallsWhole'
<1>1. \A c \in calls' : CallWhole(c)'
  BY OthersWhole, UnwatchedWhole DEF WholeInv, CallsWhole
<1>2. \A c, d \in calls' : c # d => PairWhole(c, d)
  BY UnwatchedWhole DEF WholeInv, CallsWhole
<1> QED
  BY <1>1, <1>2 DEF CallsWhole

LEMMA FlightsStay ==
    ASSUME FlightsWhole, Grows, flights' \subseteq flights
    PROVE  FlightsWhole'
  BY DEF FlightsWhole, Grows, VaultIs

\* The row is as it was, and so are the calls that settle the vault.
LEMMA RowStays ==
    ASSUME RowWhole, Grows, meta' = meta, evicted' = evicted,
           \A c \in calls : Settling(c) /\ VaultIs(c.creds)' =>
               \E c2 \in calls' : Settling(c2) /\ c2.creds = c.creds
    PROVE  RowWhole'
<1>1. CASE evicted' \/ vault' = None
  BY <1>1 DEF RowWhole
<1>2. CASE ~evicted' /\ vault' # None
  <2>1. vault # None /\ vault'.gen = vault.gen /\ vault'.acct = vault.acct
    BY <1>2 DEF Grows
  <2>2. CASE MetaIs(vault)
    BY <2>1, <2>2 DEF RowWhole, MetaIs
  <2>3. ASSUME NEW c \in calls, Settling(c), VaultIs(c.creds) PROVE RowWhole'
    <3>1. VaultIs(c.creds)'
      BY <1>2, <2>1, <2>3 DEF VaultIs
    <3>2. PICK c2 \in calls' : Settling(c2) /\ c2.creds = c.creds
      BY <2>3, <3>1
    <3> QED
      BY <3>1, <3>2 DEF RowWhole
  <2> QED
    BY <1>2, <2>1, <2>2, <2>3 DEF RowWhole
<1> QED
  BY <1>1, <1>2

-----------------------------------------------------------------------------
(* Steps of the calls that a whole session does not depend on *)

\* A step that changes neither the vault nor the row.
Aside ==
    /\ UNCHANGED <<vault, meta, decided, epoch, evicted>>
    /\ DOMAIN families \subseteq DOMAIN families'

LEMMA AsideGrows == WholeInv /\ Aside => Grows
  BY DEF WholeInv, Aside, Grows

LEMMA AsideWhole ==
    ASSUME WholeInv, TokensInv', Aside, FlightsWhole', CallsWhole',
           \A c \in calls : Settling(c) => \E c2 \in calls' : Settling(c2) /\ c2.creds = c.creds
    PROVE  WholeInv'
<1>1. Grows /\ epoch' \in Nat
  BY AsideGrows DEF WholeInv, Aside
<1>2. RowWhole'
  BY <1>1, RowStays DEF WholeInv, Aside
<1>3. VaultWhole'
  BY DEF WholeInv, VaultWhole, Aside
<1> QED
  BY <1>1, <1>2, <1>3 DEF WholeInv

LEMMA QuietAside ==
    ASSUME WholeInv, TokensInv', Aside, FlightsWhole',
           \A c \in calls' : c \in calls \/ ~Watched(c),
           \A c \in calls : Settling(c) => c \in calls'
    PROVE  WholeInv'
  BY AsideGrows, QuietWhole, AsideWhole

LEMMA GotoMoves ==
    ASSUME CallsInv, NEW c \in calls, NEW stage, Goto(c, stage)
    PROVE  \E c2 : /\ Step(c, c2) /\ IsCall(c2) /\ c2.stage = stage
                   /\ c2.kind = c.kind /\ c2.epoch = c.epoch /\ c2.acct = c.acct
                   /\ c2.session = c.session /\ c2.creds = c.creds /\ c2.pid = c.pid
<1> DEFINE c2 == [c EXCEPT !.stage = stage]
<1>1. /\ IsCall(c2) /\ c2.stage = stage
      /\ c2.kind = c.kind /\ c2.epoch = c.epoch /\ c2.acct = c.acct
      /\ c2.session = c.session /\ c2.creds = c.creds /\ c2.pid = c.pid
  BY DEF CallsInv, IsCall
<1>2. Step(c, c2)
  BY DEF Goto
<1> HIDE DEF c2
<1> QED
  BY <1>1, <1>2

LEMMA AnswerMoves ==
    ASSUME CallsInv, NEW c \in calls, NEW ok, Answer(c, ok)
    PROVE  \E c2 : Step(c, c2) /\ c2.stage \in {"telling", "done", "failed"}
<1> DEFINE stage == IF c.tells /\ (ok \/ c.kind = "call") THEN "telling"
                    ELSE IF ok THEN "done" ELSE "failed"
           c2 == [c EXCEPT !.creds = None, !.refused = None, !.ok = ok, !.stage = stage]
<1>1. stage \in {"telling", "done", "failed"}
  OBVIOUS
<1>2. c2.stage = stage
  BY DEF CallsInv, IsCall
<1>3. Step(c, c2)
  BY DEF Answer
<1> HIDE DEF c2
<1> QED
  BY <1>1, <1>2, <1>3

\* A call that settles nothing moves to where nothing depends on it.
LEMMA QuietStep ==
    ASSUME WholeInv, TokensInv', Aside, FlightsWhole', NEW c \in calls, NEW c2, Step(c, c2),
           ~Settling(c), ~Watched(c2)
    PROVE  WholeInv'
  BY QuietAside DEF Step

AnswerStages == {"telling", "done", "failed"}
TokenStages == {"load", "waiting", "sent", "writing"} \cup AnswerStages

LEMMA QuietMoves ==
    ASSUME WholeInv, TokensInv', Aside, FlightsWhole', NEW c \in calls, ~Settling(c),
           \/ \E ok : Answer(c, ok)
           \/ \E stage \in TokenStages : Goto(c, stage)
    PROVE  WholeInv'
<1>1. PICK c2 : Step(c, c2) /\ c2.stage \in TokenStages
  <2>1. CASE \E ok : Answer(c, ok)
    BY <2>1, AnswerMoves DEF WholeInv, TokensInv, TokenStages, AnswerStages
  <2>2. CASE \E stage \in TokenStages : Goto(c, stage)
    BY <2>2, GotoMoves DEF WholeInv, TokensInv
  <2> QED
    BY <2>1, <2>2
<1>2. ~Watched(c2)
  BY <1>1 DEF TokenStages, AnswerStages, Watched, LoggingIn, Leaving
<1> QED
  BY <1>1, <1>2, QuietStep

LEMMA AsideFlights ==
    ASSUME WholeInv, Aside, flights' \subseteq flights
    PROVE  FlightsWhole'
  BY AsideGrows, FlightsStay DEF WholeInv

\* Calls with a token.
LEMMA CallStepWhole ==
    ASSUME WholeInv, NEW c \in calls,
           \/ Denied(c) \/ Use(c) \/ FirstRefused(c)
           \/ \E ok \in BOOLEAN : Served(c, ok)
    PROVE  WholeInv'
<1>1. Aside /\ flights' = flights /\ c.stage \in {"load", "writing", "sent"} /\ TokensInv'
  BY CallStepTokens DEF Denied, Use, FirstRefused, Served, Aside, WholeInv
<1>2. ~Settling(c)
  BY <1>1 DEF Settling
<1>3. FlightsWhole'
  BY <1>1, AsideFlights
<1>4. CASE Use(c)
  <2> DEFINE c2 == [c EXCEPT !.creds = vault, !.stage = "sent"]
  <2>1. Step(c, c2)
    BY <1>4 DEF Use
  <2>2. c2.stage = "sent"
    BY DEF WholeInv, TokensInv, CallsInv, IsCall
  <2> HIDE DEF c2
  <2>3. ~Watched(c2)
    BY <2>2 DEF Watched, LoggingIn, Leaving
  <2> QED
    BY <1>1, <1>2, <1>3, <2>1, <2>3, QuietStep
<1>5. CASE \E ok \in BOOLEAN : Served(c, ok) /\ Step(c, [c EXCEPT !.stage = "load", !.refused = c.creds.access])
  <2> DEFINE c2 == [c EXCEPT !.stage = "load", !.refused = c.creds.access]
  <2>1. Step(c, c2)
    BY <1>5
  <2>2. c2.stage = "load"
    BY DEF WholeInv, TokensInv, CallsInv, IsCall
  <2> HIDE DEF c2
  <2>3. ~Watched(c2)
    BY <2>2 DEF Watched, LoggingIn, Leaving
  <2> QED
    BY <1>1, <1>2, <1>3, <2>1, <2>3, QuietStep
<1>6. CASE (\E ok : Answer(c, ok)) \/ Goto(c, "writing")
  BY <1>1, <1>2, <1>3, <1>6, QuietMoves DEF TokenStages
<1> QED
  BY <1>4, <1>5, <1>6 DEF Denied, FirstRefused, Served

\* A flight starts with what is in the vault.
LEMMA RefreshWhole ==
    ASSUME WholeInv, NEW c \in calls, Refresh(c)
    PROVE  WholeInv'
<1>1. Aside /\ c.stage = "load" /\ TokensInv'
  BY RefreshTokens DEF Refresh, Aside, WholeInv
<1>2. FlightsWhole'
  <2> DEFINE new == [gen |-> vault.gen, creds |-> vault, stage |-> "preparing"]
  <2>1. flights' = flights \/ flights' = flights \cup {new}
    BY DEF Refresh
  <2>2. \A f \in flights' : f \in flights \/ f.creds = vault
    BY <2>1
  <2> QED
    BY <1>1, <2>2 DEF WholeInv, FlightsWhole, Aside, VaultIs
<1>3. ~Settling(c)
  BY <1>1 DEF Settling
<1>4. (\E ok : Answer(c, ok)) \/ Goto(c, "waiting")
  BY DEF Refresh
<1> QED
  BY <1>1, <1>2, <1>3, <1>4, QuietMoves DEF TokenStages

\* What is not begun yet, and what is over.
LEMMA ComesQuiet ==
    ASSUME WholeInv, TokensInv', Aside, flights' = flights, NEW c, calls' = calls \cup {c},
           ~Watched(c)
    PROVE  WholeInv'
  BY AsideFlights, QuietAside

LEMMA LogoutBeginWhole ==
    ASSUME WholeInv, NEW op, NEW session, LogoutBegin(op, session)
    PROVE  WholeInv'
<1> DEFINE stage == IF Valid(session) THEN "clearing" ELSE "failed"
           c == [NewCall(op, "logout", session.acct, session) EXCEPT !.stage = stage]
<1>1. stage \in {"clearing", "failed"}
  OBVIOUS
<1>2. c.stage = stage
  BY DEF NewCall
<1>3. calls' = calls \cup {c} /\ Aside /\ flights' = flights /\ TokensInv'
  BY LogoutBeginTokens DEF LogoutBegin, Aside, WholeInv
<1> HIDE DEF c
<1>4. ~Watched(c)
  BY <1>1, <1>2 DEF Watched, LoggingIn, Leaving
<1> QED
  BY <1>3, <1>4, ComesQuiet

LEMMA CallBeginWhole ==
    ASSUME WholeInv, NEW op, NEW tells, CallBegin(op, tells)
    PROVE  WholeInv'
<1> DEFINE stage == IF CanWrite(vault) THEN "load" ELSE "failed"
           c == [NewCall(op, "call", vault.acct, Public(vault)) EXCEPT !.tells = tells, !.stage = stage]
<1>1. stage \in {"load", "failed"}
  OBVIOUS
<1>2. c.stage = stage
  BY DEF NewCall
<1>3. calls' = calls \cup {c} /\ Aside /\ flights' = flights /\ TokensInv'
  BY CallBeginTokens DEF CallBegin, Aside, WholeInv
<1> HIDE DEF c
<1>4. ~Watched(c)
  BY <1>1, <1>2 DEF Watched, LoggingIn, Leaving
<1> QED
  BY <1>3, <1>4, ComesQuiet

LEMMA FirstBeginWhole ==
    ASSUME WholeInv, NEW op, NEW session, NEW strategy, NEW rev, NEW pid,
           FirstBegin(op, session, strategy, rev, pid)
    PROVE  WholeInv'
<1> DEFINE stage == IF Valid(session) /\ (strategy = "use-local" => vault.scope = "full")
                    THEN "load" ELSE "failed"
           tells == strategy = "use-remote"
           c == [NewCall(op, "first", session.acct, session) EXCEPT
                    !.strategy = strategy, !.rev = rev, !.pid = pid,
                    !.tells = tells, !.stage = stage]
<1>1. stage \in {"load", "failed"}
  OBVIOUS
<1>2. c.stage = stage
  BY DEF NewCall
<1>3. calls' = calls \cup {c} /\ Aside /\ flights' = flights /\ TokensInv'
  BY FirstBeginTokens DEF FirstBegin, Aside, WholeInv
<1> HIDE DEF c
<1>4. ~Watched(c)
  BY <1>1, <1>2 DEF Watched, LoggingIn, Leaving
<1> QED
  BY <1>3, <1>4, ComesQuiet

LEMMA HeardWhole ==
    ASSUME WholeInv, NEW c, Over(c), Heard(c)
    PROVE  WholeInv'
<1>1. Aside /\ flights' = flights /\ TokensInv' /\ calls' = calls \ {c}
  BY HeardTokens DEF Heard, Aside, WholeInv
<1>2. ~Settling(c)
  BY DEF Over, Settling
<1> QED
  BY <1>1, <1>2, AsideFlights, QuietAside

LEMMA TimePassesWhole ==
    ASSUME WholeInv, NEW gen, NEW long \in BOOLEAN, TimePasses(gen, long)
    PROVE  WholeInv'
<1>1. Aside /\ flights' = flights /\ TokensInv' /\ calls' = calls
  BY TimePassesTokens DEF TimePasses, Aside, WholeInv, memory
<1> QED
  BY <1>1, AsideFlights, QuietAside

LEMMA LogoutTellWhole ==
    ASSUME WholeInv, NEW c \in calls, NEW ok, LogoutTell(c, ok)
    PROVE  WholeInv'
<1>1. Aside /\ flights' = flights /\ TokensInv' /\ c.stage = "leaving" /\ Answer(c, TRUE)
  BY LogoutTellTokens DEF LogoutTell, Aside, WholeInv
<1>2. ~Settling(c)
  BY <1>1 DEF Settling
<1> QED
  BY <1>1, <1>2, AsideFlights, QuietMoves

LEMMA NothingWhole ==
    ASSUME WholeInv, UNCHANGED sessionVars
    PROVE  WholeInv'
<1>1. Aside /\ flights' = flights /\ TokensInv' /\ calls' = calls
  BY NothingOfTheSession DEF sessionVars, memory, Aside, WholeInv
<1> QED
  BY <1>1, AsideFlights, QuietAside

-----------------------------------------------------------------------------
(* login and logout *)

LEMMA LoginBeginWhole ==
    ASSUME WholeInv, NEW op, NEW acct \in Nat, NEW pid \in Nat, LoginBegin(op, acct, pid)
    PROVE  WholeInv'
<1>1. epoch' = epoch + 1 /\ UNCHANGED <<vault, meta, decided, flights, families, evicted>>
  BY DEF LoginBegin
<1>2. PICK c2 : /\ calls' = calls \cup {c2}
                /\ c2.stage = "asking" /\ c2.kind = "login" /\ c2.epoch = epoch + 1
                /\ c2.acct = acct /\ c2.pid = pid
  <2> DEFINE new == [NewCall(op, "login", acct, None) EXCEPT
                        !.stage = "asking", !.epoch = epoch + 1, !.pid = pid]
  <2>1. /\ new.stage = "asking" /\ new.kind = "login" /\ new.epoch = epoch + 1
        /\ new.acct = acct /\ new.pid = pid
    BY DEF NewCall
  <2>2. calls' = calls \cup {new}
    BY DEF LoginBegin
  <2> HIDE DEF new
  <2> QED
    BY <2>1, <2>2
<1>3. Grows /\ epoch' \in Nat
  BY <1>1 DEF Grows, WholeInv
<1>4. CallWhole(c2)'
  BY <1>1, <1>2, <1>3 DEF CallWhole, LoggingIn, PutIn, Leaving
<1>5. \A d \in calls : PairWhole(c2, d) /\ PairWhole(d, c2)
  <2>1. \A d \in calls : d.stage \in LoggingIn => d.epoch \in 0 .. epoch
    BY DEF WholeInv, CallsWhole, CallWhole
  <2>2. epoch + 1 \notin 0 .. epoch
    BY DEF WholeInv
  <2> QED
    BY <1>2, <2>1, <2>2 DEF PairWhole, LoggingIn, Writing, PutIn, Leaving
<1>6. CallsWhole'
  BY <1>2, <1>3, <1>4, <1>5, ComesWhole
<1>7. FlightsWhole' /\ VaultWhole'
  BY <1>1, <1>3, FlightsStay DEF WholeInv, VaultWhole
<1>8. RowWhole'
  BY <1>1, <1>2, <1>3, RowStays DEF WholeInv
<1> QED
  BY <1>3, <1>6, <1>7, <1>8, LoginBeginTokens DEF WholeInv

\* The backend's answer: a new family, and no other login writes.
LEMMA LoginAnsweredWhole ==
    ASSUME WholeInv, NEW c \in calls, NEW scope, LoginAnswered(c, scope)
    PROVE  WholeInv'
<1>1. /\ c.kind = "login" /\ c.stage = "asking" /\ flights' = flights /\ TokensInv'
      /\ \A d \in calls : d.stage \notin Writing
  BY LoginAnsweredTokens DEF LoginAnswered, WholeInv, Writing
<1>2. Aside /\ Len(families) + 1 \notin DOMAIN families
  BY DEF LoginAnswered, Aside, WholeInv, TokensInv, FamiliesInv
<1>3. FlightsWhole' /\ ~Settling(c)
  BY <1>1, <1>2, AsideFlights DEF Settling
<1>4. CASE Current(c)
  <2>1. PICK c2 : /\ Step(c, c2) /\ c2.stage = "saving" /\ c2.kind = c.kind
                  /\ c2.epoch = c.epoch /\ c2.acct = c.acct /\ c2.pid = c.pid
                  /\ c2.creds.acct = c.acct /\ c2.creds.pending = TRUE
                  /\ c2.creds.gen = Len(families) + 1
    <3> DEFINE creds == [acct |-> c.acct, gen |-> Len(families) + 1, scope |-> scope,
                         pending |-> TRUE, access |-> 1, refresh |-> 1, req |-> None]
               session == Public(creds)
               new == [c EXCEPT !.stage = "saving", !.creds = creds, !.session = session]
    <3>1. Step(c, new)
      BY <1>4 DEF LoginAnswered
    <3>2. creds.acct = c.acct /\ creds.pending = TRUE /\ creds.gen = Len(families) + 1
      OBVIOUS
    <3> HIDE DEF creds, session
    <3>3. /\ new.stage = "saving" /\ new.creds = creds /\ new.kind = c.kind /\ new.epoch = c.epoch
          /\ new.acct = c.acct /\ new.pid = c.pid
      BY DEF WholeInv, TokensInv, CallsInv, IsCall
    <3> HIDE DEF new
    <3> QED
      BY <3>1, <3>2, <3>3
  <2>2. CallWhole(c2)'
    <3>1. CallWhole(c)'
      BY <1>2, AsideGrows, OthersWhole DEF WholeInv, CallsWhole
    <3> QED
      BY <1>1, <2>1, <3>1 DEF CallWhole, LoggingIn, PutIn, Leaving
  <2>3. ASSUME NEW d \in calls \ {c} PROVE PairWhole(c2, d) /\ PairWhole(d, c2)
    <3>1. CallWhole(c) /\ CallWhole(d) /\ PairWhole(c, d) /\ PairWhole(d, c) /\ d.stage \notin Writing
      BY <1>1, <2>3 DEF WholeInv, CallsWhole
    <3>2. d.stage \in PutIn => d.stage \in LoggingIn
      BY DEF PutIn, LoggingIn
    <3>3. d.stage \in LoggingIn => d.epoch # c.epoch /\ d.epoch \in 0 .. epoch
      BY <1>1, <3>1 DEF PairWhole, CallWhole, LoggingIn
    <3>4. d.stage \in LoggingIn => d.epoch < c2.epoch /\ d.epoch # c2.epoch
      BY <1>4, <2>1, <3>3 DEF Current, WholeInv
    <3>5. /\ d.stage \in PutIn => d.creds.gen # Len(families) + 1
          /\ d.stage \in Leaving => d.session.gen # Len(families) + 1
      BY <1>2, <3>1 DEF CallWhole
    <3> QED
      BY <2>1, <3>1, <3>2, <3>4, <3>5 DEF PairWhole, LoggingIn, Writing, PutIn, Leaving
  <2>4. CallsWhole'
    BY <1>2, <2>1, <2>2, <2>3, AsideGrows, ComesWhole DEF Step
  <2> QED
    BY <1>1, <1>2, <1>3, <2>1, <2>4, AsideWhole DEF Step
<1>5. CASE ~Current(c)
  BY <1>1, <1>2, <1>3, <1>5, QuietMoves DEF LoginAnswered
<1> QED
  BY <1>4, <1>5

LEMMA LoginRefusedWhole ==
    ASSUME WholeInv, NEW c \in calls, LoginRefused(c)
    PROVE  WholeInv'
<1>1. Aside /\ flights' = flights /\ TokensInv' /\ c.stage = "asking"
  BY LoginGoesOnTokens DEF LoginRefused, Aside, WholeInv
<1>2. ~Settling(c)
  BY <1>1 DEF Settling
<1> QED
  BY <1>1, <1>2, AsideFlights, QuietMoves DEF LoginRefused

\* The others are older, and what they had in the vault is of another session.
LEMMA LoginSaveWhole ==
    ASSUME WholeInv, NEW c \in calls, LoginSave(c)
    PROVE  WholeInv'
<1>1. /\ c.stage = "saving" /\ vault' = c.creds
      /\ UNCHANGED <<meta, decided, epoch, flights, families, evicted>> /\ TokensInv'
  BY LoginSaveTokens DEF LoginSave, WholeInv
<1>2. PICK c2 : /\ Step(c, c2) /\ c2.stage = "saved"
                /\ c2.kind = c.kind /\ c2.epoch = c.epoch /\ c2.acct = c.acct
                /\ c2.session = c.session /\ c2.creds = c.creds /\ c2.pid = c.pid
  BY GotoMoves DEF LoginSave, WholeInv, TokensInv
<1>3. /\ c.creds.gen \in DOMAIN families /\ c.creds.acct = c.acct /\ c.creds.pending
      /\ c.kind = "login" /\ c.epoch \in 0 .. epoch /\ c.acct \in Nat /\ c.pid \in Nat
      /\ \A f \in flights : f.creds.gen # c.creds.gen
  BY <1>1 DEF WholeInv, TokensInv, SavingInv, FlightsInv, FlightInv, CallsWhole, CallWhole, LoggingIn
<1>4. CallWhole(c2)'
  BY <1>1, <1>2, <1>3 DEF CallWhole, VaultIs, LoggingIn, PutIn, Leaving
<1>5. ASSUME NEW d \in calls \ {c} PROVE CallWhole(d)' /\ PairWhole(c2, d) /\ PairWhole(d, c2)
  <2>1. CallWhole(d) /\ PairWhole(c, d) /\ PairWhole(d, c)
    BY <1>5 DEF WholeInv, CallsWhole
  <2>2. d.stage \notin Writing
    BY <1>1, <2>1 DEF PairWhole, Writing
  <2>3. d.stage \in PutIn => d.epoch < c.epoch /\ d.creds.gen # c.creds.gen /\ d.epoch \in 0 .. epoch
    BY <1>1, <2>1 DEF PairWhole, CallWhole, Writing, PutIn, LoggingIn
  <2>4. d.stage \in PutIn => d.epoch # epoch
    BY <1>3, <2>3 DEF WholeInv
  <2>5. d.stage \in Leaving => d.session.gen # c.creds.gen
    BY <1>1, <2>1 DEF PairWhole
  <2>6. CallWhole(d)'
    BY <1>1, <2>1, <2>2, <2>3, <2>4, <2>5 DEF CallWhole, Current, VaultIs, Writing
  <2>7. PairWhole(c2, d) /\ PairWhole(d, c2)
    BY <1>1, <1>2, <2>1, <2>2 DEF PairWhole, LoggingIn, Writing, PutIn, Leaving
  <2> QED
    BY <2>6, <2>7
<1>6. CallsWhole'
  <2>1. \A d \in calls' : d = c2 \/ d \in calls \ {c}
    BY <1>2 DEF Step
  <2>2. \A d \in calls' : CallWhole(d)'
    BY <1>4, <1>5, <2>1
  <2>3. \A d, e \in calls' : d # e => PairWhole(d, e)
    BY <1>5, <2>1 DEF WholeInv, CallsWhole
  <2> QED
    BY <2>2, <2>3 DEF CallsWhole
<1>7. FlightsWhole' /\ VaultWhole'
  BY <1>1, <1>3 DEF FlightsWhole, VaultWhole, VaultIs
<1>8. RowWhole'
  <2>1. c2 \in calls' /\ Settling(c2) /\ (vault' # None => VaultIs(c2.creds)')
    BY <1>1, <1>2 DEF Step, Settling, VaultIs
  <2> QED
    BY <1>1, <2>1 DEF WholeInv, RowWhole
<1> QED
  BY <1>1, <1>6, <1>7, <1>8 DEF WholeInv

\* A call moves on within the same part of a login or a logout, or out of it.
LEMMA SameParts ==
    ASSUME WholeInv, NEW c \in calls, NEW c2,
           c2.epoch = c.epoch, c2.creds = c.creds, c2.session = c.session,
           c2.stage \in LoggingIn => c.stage \in LoggingIn,
           c2.stage \in Writing => c.stage \in Writing,
           c2.stage \in PutIn => c.stage \in PutIn,
           c2.stage = "saving" => c.stage = "saving",
           c2.stage \in Leaving => c.stage \in Leaving
    PROVE  \A d \in calls \ {c} : PairWhole(c2, d) /\ PairWhole(d, c2)
<1> TAKE d \in calls \ {c}
<1>1. PairWhole(c, d) /\ PairWhole(d, c)
  BY DEF WholeInv, CallsWhole
<1> QED
  BY <1>1 DEF PairWhole

\* Such a step, that writes nothing.
LEMMA MoveWhole ==
    ASSUME WholeInv, TokensInv', Aside, flights' = flights, NEW c \in calls, NEW c2, Step(c, c2),
           CallWhole(c2)', \A d \in calls \ {c} : PairWhole(c2, d) /\ PairWhole(d, c2),
           Settling(c) => Settling(c2) /\ c2.creds = c.creds
    PROVE  WholeInv'
<1>1. CallsWhole'
  BY AsideGrows, ComesWhole DEF Step
<1>2. \A d \in calls : Settling(d) => \E d2 \in calls' : Settling(d2) /\ d2.creds = d.creds
  BY DEF Step
<1> QED
  BY <1>1, <1>2, AsideFlights, AsideWhole

\* What a login looks at after each of its awaits.
LEMMA LoginSavedWhole ==
    ASSUME WholeInv, NEW c \in calls, LoginSaved(c)
    PROVE  WholeInv'
<1>1. Aside /\ flights' = flights /\ TokensInv' /\ c.stage = "saved"
  BY LoginGoesOnTokens DEF LoginSaved, Aside, WholeInv
<1>2. PICK c2 : /\ Step(c, c2) /\ c2.stage = IF Current(c) THEN "pulling" ELSE "clearing"
                /\ c2.kind = c.kind /\ c2.epoch = c.epoch /\ c2.acct = c.acct
                /\ c2.session = c.session /\ c2.creds = c.creds /\ c2.pid = c.pid
  BY GotoMoves DEF LoginSaved, WholeInv, TokensInv
<1>3. CallWhole(c) /\ CallWhole(c)' /\ c.kind = "login"
  BY <1>1, AsideGrows, OthersWhole DEF WholeInv, CallsWhole, CallWhole, LoggingIn
<1>4. CallWhole(c2)'
  BY <1>1, <1>2, <1>3 DEF CallWhole, Current, VaultIs, LoggingIn, PutIn, Leaving
<1>5. \A d \in calls \ {c} : PairWhole(c2, d) /\ PairWhole(d, c2)
  BY <1>1, <1>2, SameParts DEF LoggingIn, Writing, PutIn, Leaving
<1>6. Settling(c2)
  BY <1>2, <1>3 DEF Settling
<1> QED
  BY <1>1, <1>2, <1>4, <1>5, <1>6, MoveWhole

LEMMA LoginPulledWhole ==
    ASSUME WholeInv, NEW c \in calls, NEW ok \in BOOLEAN, LoginPulled(c, ok)
    PROVE  WholeInv'
<1>1. /\ Aside /\ flights' = flights /\ TokensInv' /\ c.stage = "pulling"
      /\ UNCHANGED <<epoch, vault, families>>
  BY LoginGoesOnTokens DEF LoginPulled, Aside, WholeInv
<1>2. PICK c2 : /\ Step(c, c2) /\ c2.stage = IF ok /\ Current(c) THEN "activating" ELSE "clearing"
                /\ c2.kind = c.kind /\ c2.epoch = c.epoch /\ c2.acct = c.acct
                /\ c2.session = c.session /\ c2.creds = c.creds /\ c2.pid = c.pid
  BY GotoMoves DEF LoginPulled, WholeInv, TokensInv
<1>3. CallWhole(c) /\ CallWhole(c)' /\ c.kind = "login"
  BY <1>1, AsideGrows, OthersWhole DEF WholeInv, CallsWhole, CallWhole, LoggingIn
<1>4. CallWhole(c2)'
  BY <1>1, <1>2, <1>3 DEF CallWhole, Current, VaultIs, LoggingIn, PutIn, Leaving
<1>5. CASE ok /\ Current(c)
  <2>1. ASSUME NEW d \in calls \ {c} PROVE PairWhole(c2, d) /\ PairWhole(d, c2)
    <3>1. CallWhole(d) /\ PairWhole(c, d) /\ PairWhole(d, c)
      BY <2>1 DEF WholeInv, CallsWhole
    <3>2. c.epoch = epoch /\ epoch \in Nat
      BY <1>5 DEF Current, WholeInv
    <3>3. d.stage \in LoggingIn => d.epoch \in Nat /\ d.epoch < epoch
      BY <1>1, <3>1, <3>2 DEF CallWhole, PairWhole, LoggingIn
    <3>4. d.stage \notin Writing
      <4>1. d.stage \in Writing => d.stage \in LoggingIn /\ epoch < d.epoch
        BY <1>1, <3>1, <3>2 DEF PairWhole, Writing, PutIn, LoggingIn
      <4> QED
        BY <3>2, <3>3, <4>1
    <3>5. d.stage \in PutIn => d.stage \in LoggingIn
      BY DEF PutIn, LoggingIn
    <3> QED
      BY <1>1, <1>2, <1>5, <3>1, <3>2, <3>3, <3>4, <3>5 DEF PairWhole, LoggingIn, Writing, PutIn, Leaving
  <2>2. Settling(c2)
    BY <1>2, <1>5 DEF Settling
  <2> QED
    BY <1>1, <1>2, <1>4, <2>1, <2>2, MoveWhole
<1>6. CASE ~(ok /\ Current(c))
  <2>1. \A d \in calls \ {c} : PairWhole(c2, d) /\ PairWhole(d, c2)
    BY <1>1, <1>2, <1>6, SameParts DEF LoggingIn, Writing, PutIn, Leaving
  <2>2. Settling(c2)
    BY <1>2, <1>3, <1>6 DEF Settling
  <2> QED
    BY <1>1, <1>2, <1>4, <2>1, <2>2, MoveWhole
<1> QED
  BY <1>5, <1>6

\* The row is of the vault's session, if there is one.
LEMMA LoginActivateWhole ==
    ASSUME WholeInv, NEW c \in calls, LoginActivate(c)
    PROVE  WholeInv'
<1>1. /\ c.stage = "activating" /\ meta' = [acct |-> c.acct, gen |-> c.creds.gen, pid |-> c.pid]
      /\ UNCHANGED <<vault, decided, epoch, flights, families, evicted>> /\ TokensInv'
  BY LoginGoesOnTokens DEF LoginActivate, WholeInv
<1>2. PICK c2 : /\ Step(c, c2) /\ c2.stage = "activated"
                /\ c2.kind = c.kind /\ c2.epoch = c.epoch /\ c2.acct = c.acct
                /\ c2.session = c.session /\ c2.creds = c.creds /\ c2.pid = c.pid
  BY GotoMoves DEF LoginActivate, WholeInv, TokensInv
<1>3. Grows /\ CallWhole(c) /\ CallWhole(c)'
  <2>1. Grows
    BY <1>1 DEF Grows, WholeInv
  <2> QED
    BY <2>1, OthersWhole DEF WholeInv, CallsWhole
<1>4. CallWhole(c2)'
  BY <1>1, <1>2, <1>3 DEF CallWhole, Current, VaultIs, LoggingIn, PutIn, Leaving
<1>5. \A d \in calls \ {c} : PairWhole(c2, d) /\ PairWhole(d, c2)
  BY <1>1, <1>2, SameParts DEF LoggingIn, Writing, PutIn, Leaving
<1>6. CallsWhole'
  BY <1>2, <1>3, <1>4, <1>5, ComesWhole DEF Step
<1>7. FlightsWhole' /\ VaultWhole'
  BY <1>1, <1>3, FlightsStay DEF WholeInv, VaultWhole
<1>8. RowWhole'
  <2>1. c.acct \in Nat /\ c.pid \in Nat /\ c.creds.gen \in Nat
    BY <1>1, <1>3 DEF CallWhole, LoggingIn, PutIn, WholeInv, TokensInv, FamiliesInv
  <2>2. /\ meta' \in [acct : Nat, gen : Nat, pid : Nat] /\ meta' # None
        /\ meta'.acct = c.acct /\ meta'.gen = c.creds.gen
    BY <1>1, <2>1, RowAssumption
  <2>3. vault # None => vault.gen = c.creds.gen /\ vault.acct = c.acct
    BY <1>1, <1>3 DEF CallWhole, VaultIs, PutIn
  <2>4. vault' # None => MetaIs(vault)'
    BY <1>1, <2>2, <2>3 DEF MetaIs
  <2> QED
    BY <2>2, <2>4 DEF RowWhole
<1> QED
  BY <1>1, <1>6, <1>7, <1>8 DEF WholeInv

LEMMA LoginActivatedWhole ==
    ASSUME WholeInv, NEW c \in calls, LoginActivated(c)
    PROVE  WholeInv'
<1>1. Aside /\ flights' = flights /\ TokensInv' /\ c.stage = "activated"
  BY LoginGoesOnTokens DEF LoginActivated, Aside, WholeInv
<1>2. ~Settling(c)
  BY <1>1 DEF Settling
<1>3. CASE Current(c)
  BY <1>1, <1>2, <1>3, AsideFlights, QuietMoves DEF LoginActivated
<1>4. CASE ~Current(c)
  <2>1. PICK c2 : /\ Step(c, c2) /\ c2.stage = "undoing"
                  /\ c2.kind = c.kind /\ c2.epoch = c.epoch /\ c2.acct = c.acct
                  /\ c2.session = c.session /\ c2.creds = c.creds /\ c2.pid = c.pid
    BY <1>4, GotoMoves DEF LoginActivated, WholeInv, TokensInv
  <2>2. c.kind = "login"
    BY <1>1 DEF WholeInv, CallsWhole, CallWhole, LoggingIn
  <2>3. CallWhole(c2)'
    BY <2>1, <2>2 DEF CallWhole, LoggingIn, PutIn, Leaving
  <2>4. \A d \in calls \ {c} : PairWhole(c2, d) /\ PairWhole(d, c2)
    BY <2>1, SameParts DEF LoggingIn, Writing, PutIn, Leaving
  <2> QED
    BY <1>1, <1>2, <2>1, <2>3, <2>4, MoveWhole
<1> QED
  BY <1>3, <1>4

\* A row is taken away by its own session.
LEMMA RowUndone ==
    ASSUME WholeInv, NEW session, NEW pid, meta' = Deactivated(session, pid), ~VaultIs(session),
           UNCHANGED <<vault, evicted>>,
           \A d \in calls : Settling(d) => \E d2 \in calls' : Settling(d2) /\ d2.creds = d.creds
    PROVE  RowWhole'
<1>1. meta' = meta \/ (meta' = None /\ meta.gen = session.gen)
  BY DEF Deactivated, MetaIs
<1>2. vault' # None /\ MetaIs(vault) => MetaIs(vault)'
  BY <1>1 DEF MetaIs, VaultIs
<1>3. \A d \in calls : Settling(d) /\ VaultIs(d.creds) =>
                           \E d2 \in calls' : Settling(d2) /\ VaultIs(d2.creds)'
  BY DEF VaultIs
<1> QED
  BY <1>1, <1>2, <1>3 DEF WholeInv, RowWhole

LEMMA LoginUndoWhole ==
    ASSUME WholeInv, NEW c \in calls, LoginUndo(c)
    PROVE  WholeInv'
<1>1. /\ c.stage = "undoing" /\ meta' = Deactivated(c.creds, c.pid)
      /\ UNCHANGED <<vault, decided, epoch, flights, families, evicted>> /\ TokensInv'
  BY LoginGoesOnTokens DEF LoginUndo, WholeInv
<1>2. PICK c2 : /\ Step(c, c2) /\ c2.stage = "clearing"
                /\ c2.kind = c.kind /\ c2.creds = c.creds
  BY GotoMoves DEF LoginUndo, WholeInv, TokensInv
<1>3. Settling(c2) /\ ~Watched(c2)
  BY <1>1, <1>2 DEF WholeInv, CallsWhole, CallWhole, Settling, Watched, LoggingIn, Leaving
<1>4. Grows
  BY <1>1 DEF Grows, WholeInv
<1>5. CallsWhole' /\ FlightsWhole' /\ VaultWhole'
  BY <1>1, <1>2, <1>3, <1>4, QuietWhole, FlightsStay DEF Step, WholeInv, VaultWhole
<1>6. \A d \in calls : Settling(d) => \E d2 \in calls' : Settling(d2) /\ d2.creds = d.creds
  BY <1>2, <1>3 DEF Step
<1>7. RowWhole'
  <2>1. CASE VaultIs(c.creds)
    <3>1. c2 \in calls' /\ VaultIs(c2.creds)'
      BY <1>1, <1>2, <2>1 DEF Step, VaultIs
    <3>2. meta' = meta \/ meta' = None
      BY <1>1 DEF Deactivated
    <3> QED
      BY <1>3, <3>1, <3>2 DEF WholeInv, RowWhole
  <2>2. CASE ~VaultIs(c.creds)
    BY <1>1, <1>6, <2>2, RowUndone
  <2> QED
    BY <2>1, <2>2
<1> QED
  BY <1>1, <1>5, <1>7 DEF WholeInv

LEMMA LoginClearWhole ==
    ASSUME WholeInv, NEW c \in calls, LoginClear(c)
    PROVE  WholeInv'
<1>1. /\ vault' = IF VaultIs(c.creds) THEN None ELSE vault
      /\ UNCHANGED <<meta, decided, epoch, flights, families, evicted>> /\ TokensInv'
  BY ClearTokens DEF LoginClear, WholeInv
<1>2. PICK c2 : Step(c, c2) /\ c2.stage \in AnswerStages
  BY AnswerMoves DEF LoginClear, WholeInv, TokensInv, AnswerStages
<1>3. Grows /\ ~Watched(c2)
  BY <1>1, <1>2 DEF Grows, WholeInv, AnswerStages, Watched, LoggingIn, Leaving
<1>4. CallsWhole' /\ FlightsWhole' /\ VaultWhole'
  BY <1>1, <1>2, <1>3, QuietWhole, FlightsStay DEF Step, WholeInv, VaultWhole
<1>5. \A d \in calls : Settling(d) /\ VaultIs(d.creds)' =>
                           \E d2 \in calls' : Settling(d2) /\ d2.creds = d.creds
  BY <1>1, <1>2 DEF Step, VaultIs
<1>6. RowWhole'
  BY <1>1, <1>3, <1>5, RowStays DEF WholeInv
<1> QED
  BY <1>1, <1>4, <1>6 DEF WholeInv

LEMMA LogoutClearWhole ==
    ASSUME WholeInv, NEW c \in calls, LogoutClear(c)
    PROVE  WholeInv'
<1>1. /\ UNCHANGED <<meta, decided, flights, families, evicted>> /\ TokensInv'
      /\ c.kind = "logout" /\ c.stage = "clearing"
  BY ClearTokens DEF LogoutClear, WholeInv
<1>2. ~Settling(c)
  BY <1>1 DEF Settling
<1>3. CASE VaultIs(c.session)
  <2>1. vault' = None /\ epoch' \in Nat /\ epoch <= epoch'
    BY <1>3 DEF LogoutClear, WholeInv
  <2>2. PICK c2 : Step(c, c2) /\ c2.stage = "reading" /\ c2.session = c.session
    BY <1>3, GotoMoves DEF LogoutClear, WholeInv, TokensInv
  <2>3. Grows
    BY <1>1, <2>1 DEF Grows
  <2>4. c.session.gen \in DOMAIN families
    BY <1>3 DEF VaultIs, WholeInv, TokensInv, VaultInv, Fresh
  <2>5. CallWhole(c2)'
    BY <1>1, <2>1, <2>2, <2>4 DEF CallWhole, VaultIs, LoggingIn, PutIn, Leaving
  <2>6. \A d \in calls : d.stage = "saving" => d.creds.gen # c.session.gen
    BY <1>3 DEF VaultIs, WholeInv, TokensInv, SavingInv
  <2>7. \A d \in calls \ {c} : PairWhole(c2, d) /\ PairWhole(d, c2)
    BY <2>2, <2>6 DEF PairWhole, LoggingIn, Writing, PutIn, Leaving
  <2>8. CallsWhole'
    BY <2>2, <2>3, <2>5, <2>7, ComesWhole DEF Step
  <2>9. FlightsWhole' /\ VaultWhole' /\ RowWhole'
    BY <1>1, <2>1, <2>3, FlightsStay DEF WholeInv, VaultWhole, RowWhole
  <2> QED
    BY <1>1, <2>1, <2>8, <2>9 DEF WholeInv
<1>4. CASE ~VaultIs(c.session)
  <2>1. Aside /\ Answer(c, FALSE)
    BY <1>1, <1>4 DEF LogoutClear, Aside
  <2> QED
    BY <1>1, <1>2, <2>1, AsideFlights, QuietMoves
<1> QED
  BY <1>3, <1>4

LEMMA LogoutReadWhole ==
    ASSUME WholeInv, NEW c \in calls, LogoutRead(c)
    PROVE  WholeInv'
<1>1. Aside /\ flights' = flights /\ TokensInv' /\ c.stage = "reading"
  BY LoginGoesOnTokens DEF LogoutRead, Aside, WholeInv
<1>2. PICK c2 : /\ Step(c, c2) /\ c2.stage \in {"undo", "leaving"}
                /\ c2.epoch = c.epoch /\ c2.session = c.session /\ c2.creds = c.creds
  <2>1. CASE meta # None /\ meta.acct = c.acct
    <3> DEFINE pid == meta.pid
               new == [c EXCEPT !.stage = "undo", !.pid = pid]
    <3>1. Step(c, new)
      BY <2>1 DEF LogoutRead
    <3> HIDE DEF pid
    <3>2. /\ new.stage = "undo" /\ new.epoch = c.epoch /\ new.session = c.session
          /\ new.creds = c.creds
      BY DEF WholeInv, TokensInv, CallsInv, IsCall
    <3> HIDE DEF new
    <3> QED
      BY <3>1, <3>2
  <2>2. CASE ~(meta # None /\ meta.acct = c.acct)
    BY <2>2, GotoMoves DEF LogoutRead, WholeInv, TokensInv
  <2> QED
    BY <2>1, <2>2
<1>3. CallWhole(c)' /\ ~Settling(c)
  BY <1>1, AsideGrows, OthersWhole DEF WholeInv, CallsWhole, Settling
<1>4. CallWhole(c2)'
  BY <1>1, <1>2, <1>3 DEF CallWhole, LoggingIn, PutIn, Leaving
<1>5. \A d \in calls \ {c} : PairWhole(c2, d) /\ PairWhole(d, c2)
  BY <1>1, <1>2, SameParts DEF LoggingIn, Writing, PutIn, Leaving
<1> QED
  BY <1>1, <1>2, <1>3, <1>4, <1>5, MoveWhole

LEMMA LogoutUndoWhole ==
    ASSUME WholeInv, NEW c \in calls, LogoutUndo(c)
    PROVE  WholeInv'
<1>1. /\ c.stage = "undo" /\ meta' = Deactivated(c.session, c.pid)
      /\ UNCHANGED <<vault, decided, epoch, flights, families, evicted>> /\ TokensInv'
  BY LoginGoesOnTokens DEF LogoutUndo, WholeInv
<1>2. PICK c2 : /\ Step(c, c2) /\ c2.stage = "leaving"
                /\ c2.epoch = c.epoch /\ c2.session = c.session /\ c2.creds = c.creds
  BY GotoMoves DEF LogoutUndo, WholeInv, TokensInv
<1>3. Grows
  BY <1>1 DEF Grows, WholeInv
<1>4. CallWhole(c) /\ CallWhole(c)' /\ ~Settling(c)
  BY <1>1, <1>3, OthersWhole DEF WholeInv, CallsWhole, Settling
<1>5. CallWhole(c2)'
  BY <1>1, <1>2, <1>4 DEF CallWhole, LoggingIn, PutIn, Leaving
<1>6. \A d \in calls \ {c} : PairWhole(c2, d) /\ PairWhole(d, c2)
  BY <1>1, <1>2, SameParts DEF LoggingIn, Writing, PutIn, Leaving
<1>7. CallsWhole' /\ FlightsWhole' /\ VaultWhole'
  BY <1>1, <1>2, <1>3, <1>5, <1>6, ComesWhole, FlightsStay DEF Step, WholeInv, VaultWhole
<1>8. RowWhole'
  <2>1. ~VaultIs(c.session)
    BY <1>1, <1>4 DEF CallWhole, Leaving
  <2>2. \A d \in calls : Settling(d) => d \in calls'
    BY <1>2, <1>4 DEF Step
  <2> QED
    BY <1>1, <2>1, <2>2, RowUndone
<1> QED
  BY <1>1, <1>7, <1>8 DEF WholeInv

-----------------------------------------------------------------------------
(* The first connection, the flights, and a worker that is stopped *)

LEMMA FirstWriteWhole ==
    ASSUME WholeInv, NEW c \in calls, NEW rev, NEW pid, NEW newPid \in Nat,
           FirstWrite(c, rev, pid, newPid)
    PROVE  WholeInv'
<1>1. /\ c.stage = "writing" /\ meta # None /\ meta' = [meta EXCEPT !.pid = newPid]
      /\ decided' = decided \cup {c.session.gen}
      /\ UNCHANGED <<vault, epoch, flights, families, evicted>> /\ TokensInv'
  BY FirstWriteTokens DEF FirstWrite, WholeInv, MetaIs
<1>2. c.kind = "first"
  BY DEF FirstWrite
<1>3. PICK c2 : Step(c, c2) /\ c2.stage = "completing" /\ c2.kind = c.kind /\ c2.session = c.session
  BY GotoMoves DEF FirstWrite, WholeInv, TokensInv
<1>4. Grows
  BY <1>1 DEF Grows, WholeInv
<1>5. CallWhole(c2)'
  BY <1>1, <1>3 DEF CallWhole, LoggingIn, PutIn, Leaving
<1>6. \A d \in calls : PairWhole(c2, d) /\ PairWhole(d, c2)
  BY <1>3 DEF PairWhole, LoggingIn, Writing, PutIn, Leaving
<1>7. CallsWhole' /\ FlightsWhole' /\ VaultWhole'
  BY <1>1, <1>3, <1>4, <1>5, <1>6, ComesWhole, FlightsStay DEF Step, WholeInv, VaultWhole
<1>8. RowWhole'
  <2>1. /\ meta' \in [acct : Nat, gen : Nat, pid : Nat]
        /\ meta'.acct = meta.acct /\ meta'.gen = meta.gen
    BY <1>1 DEF WholeInv, RowWhole
  <2>2. MetaIs(vault) => MetaIs(vault)'
    BY <1>1, <2>1, RowAssumption DEF MetaIs
  <2>3. ~Settling(c)
    BY <1>1 DEF Settling
  <2>4. \A d \in calls : Settling(d) /\ VaultIs(d.creds) => d \in calls' /\ VaultIs(d.creds)'
    BY <1>1, <1>3, <2>3 DEF Step, VaultIs
  <2> QED
    BY <1>1, <2>1, <2>2, <2>4 DEF WholeInv, RowWhole
<1> QED
  BY <1>1, <1>7, <1>8 DEF WholeInv

\* The session may write: its first connection has reached the store.
LEMMA FirstCompleteWhole ==
    ASSUME WholeInv, NEW c \in calls, FirstComplete(c)
    PROVE  WholeInv'
<1>1. /\ c.stage = "completing" /\ UNCHANGED <<meta, decided, epoch, flights, families, evicted>>
      /\ TokensInv'
  BY FirstCompleteTokens DEF FirstComplete, WholeInv
<1>2. PICK c2 : Step(c, c2) /\ c2.stage \in AnswerStages
  BY AnswerMoves DEF FirstComplete, WholeInv, TokensInv, AnswerStages
<1>3. ~Settling(c) /\ ~Watched(c2)
  BY <1>1, <1>2 DEF Settling, AnswerStages, Watched, LoggingIn, Leaving
<1>4. \/ vault' = vault
      \/ /\ vault # None /\ vault.gen = c.session.gen
         /\ vault'.gen = vault.gen /\ vault'.acct = vault.acct
  <2>1. vault # None => [vault EXCEPT !.pending = FALSE].gen = vault.gen /\
                        [vault EXCEPT !.pending = FALSE].acct = vault.acct
    BY DEF WholeInv, TokensInv, VaultInv, IsCreds
  <2> QED
    BY <2>1 DEF FirstComplete, VaultIs
<1>5. Grows
  BY <1>1, <1>4 DEF Grows, WholeInv
<1>6. c.session.gen \in decided
  BY <1>1 DEF WholeInv, CallsWhole, CallWhole
<1>7. VaultWhole'
  BY <1>1, <1>4, <1>6 DEF WholeInv, VaultWhole
<1>8. CallsWhole' /\ FlightsWhole'
  BY <1>1, <1>2, <1>3, <1>5, QuietWhole, FlightsStay DEF Step, WholeInv
<1>9. RowWhole'
  BY <1>1, <1>2, <1>3, <1>5, RowStays DEF Step, WholeInv
<1> QED
  BY <1>1, <1>7, <1>8, <1>9 DEF WholeInv

LEMMA EvictWhole ==
    ASSUME WholeInv, Evict
    PROVE  WholeInv'
<1>1. /\ epoch' = 0 /\ flights' = {} /\ evicted' = TRUE /\ TokensInv'
      /\ UNCHANGED <<vault, meta, decided, families>>
  BY EvictTokens DEF Evict, WholeInv
<1>2. \A c \in calls' : ~Watched(c)
  <2>1. \A c \in calls : LET c2 == [c EXCEPT !.stage = "failed"] IN c2.stage = "failed"
    BY DEF WholeInv, TokensInv, CallsInv, IsCall
  <2>2. \A c \in calls' : c.stage \in {"done", "failed"}
    BY <2>1 DEF Evict, Over
  <2> QED
    BY <2>2 DEF Watched, LoggingIn, Leaving
<1>3. CallsWhole'
  BY <1>2, UnwatchedWhole DEF CallsWhole
<1>4. FlightsWhole' /\ VaultWhole' /\ RowWhole'
  BY <1>1 DEF FlightsWhole, VaultWhole, RowWhole, WholeInv
<1> QED
  BY <1>1, <1>3, <1>4 DEF WholeInv

\* A flight ends, or goes on, and writes to the vault only the credentials of
\* the session it found there.
LEMMA LandedQuiet ==
    ASSUME CallsInv, NEW f, NEW creds, Landed(f, creds)
    PROVE  /\ \A c \in calls' : c \in calls \/ ~Watched(c)
           /\ \A c \in calls : Settling(c) => c \in calls'
<1> DEFINE moved(c) == [c EXCEPT !.stage = IF creds = None THEN "failed" ELSE "sent",
                                 !.creds = IF creds = None THEN @ ELSE creds]
<1>1. \A c \in calls : moved(c).stage \in {"failed", "sent"}
  BY DEF CallsInv, IsCall
<1>2. \A c2 \in calls' : c2 \in calls \/ \E c \in calls : c2 = moved(c)
  BY DEF Landed
<1>3. \A c \in calls : c.stage # "waiting" => c \in calls'
  BY DEF Landed
<1> HIDE DEF moved
<1> QED
  BY <1>1, <1>2, <1>3 DEF Watched, LoggingIn, Leaving, Settling


LEMMA ReplaceKeeps ==
    ASSUME NEW f, VaultIs(f.creds) => vault.acct = f.creds.acct, Replaceable(f), NEW creds,
           creds \in [acct : {f.creds.acct}, gen : {f.creds.gen}, scope : {creds.scope},
                      pending : {creds.pending}, access : {creds.access},
                      refresh : {creds.refresh}, req : {creds.req}],
           Replace(creds)
    PROVE  /\ vault # None /\ vault'.gen = vault.gen /\ vault'.acct = vault.acct
           /\ vault'.pending = vault.pending
  BY DEF Replaceable, Replace, VaultIs

LEMMA FlightStepKeeps ==
    ASSUME WholeInv, NEW f \in flights, FlightStep(f)
    PROVE  /\ \/ vault' = vault
              \/ /\ vault # None /\ vault'.gen = vault.gen /\ vault'.acct = vault.acct
                 /\ vault'.pending = vault.pending
           /\ \A g \in flights' :
                 g \in flights \/ (g.creds.acct = f.creds.acct /\ g.creds.gen = f.creds.gen)
<1>1. /\ FlightInv(f) /\ IsCreds(f.creds) /\ IsFlight(f)
      /\ VaultIs(f.creds) => vault.acct = f.creds.acct
  BY DEF WholeInv, TokensInv, FlightsInv, FlightInv, FlightsWhole
<1>2. CASE FlightPrepare(f)
  <2> DEFINE req == RequestId(f.creds)
             creds == [f.creds EXCEPT !.req = req]
             f2 == [f EXCEPT !.stage = "asking", !.creds = creds]
  <2>1. \/ /\ Replaceable(f) /\ Replace(creds)
           /\ flights' = (flights \ {f}) \cup {f2}
        \/ vault' = vault /\ flights' = flights \ {f}
    BY <1>2 DEF FlightPrepare, Landed
  <2> HIDE DEF req
  <2>2. creds \in [acct : {f.creds.acct}, gen : {f.creds.gen}, scope : {creds.scope},
                   pending : {creds.pending}, access : {creds.access},
                   refresh : {creds.refresh}, req : {creds.req}]
    BY <1>1 DEF IsCreds
  <2> HIDE DEF creds
  <2>3. f2.creds = creds
    BY <1>1 DEF IsFlight
  <2> HIDE DEF f2
  <2> QED
    BY <1>1, <2>1, <2>2, <2>3, ReplaceKeeps
<1>3. CASE FlightStore(f)
  <2> DEFINE refresh == f.creds.refresh + 1
             creds == [f.creds EXCEPT !.refresh = refresh, !.access = refresh, !.req = None]
  <2>1. (Replaceable(f) /\ Replace(creds)) \/ vault' = vault
    BY <1>3 DEF FlightStore
  <2>2. flights' = flights \ {f}
    BY <1>3 DEF FlightStore, Landed
  <2> HIDE DEF refresh
  <2>3. creds \in [acct : {f.creds.acct}, gen : {f.creds.gen}, scope : {creds.scope},
                   pending : {creds.pending}, access : {creds.access},
                   refresh : {creds.refresh}, req : {creds.req}]
    BY <1>1 DEF IsCreds
  <2> HIDE DEF creds
  <2> QED
    BY <1>1, <2>1, <2>2, <2>3, ReplaceKeeps
<1>4. ASSUME NEW lost \in BOOLEAN, FlightAsk(f, lost)
      PROVE  /\ vault' = vault
             /\ \A g \in flights' :
                   g \in flights \/ (g.creds.acct = f.creds.acct /\ g.creds.gen = f.creds.gen)
  <2> DEFINE f2 == [f EXCEPT !.stage = "storing"]
  <2>1. vault' = vault /\ (flights' = (flights \ {f}) \cup {f2} \/ flights' = flights \ {f})
    BY <1>4 DEF FlightAsk, Landed
  <2>2. f2.creds = f.creds
    BY <1>1 DEF IsFlight
  <2> HIDE DEF f2
  <2> QED
    BY <2>1, <2>2
<1> QED
  BY <1>2, <1>3, <1>4 DEF FlightStep

LEMMA FlightStepWhole ==
    ASSUME WholeInv, NEW f \in flights, FlightStep(f)
    PROVE  WholeInv'
<1>1. UNCHANGED <<meta, decided, epoch, evicted>> /\ TokensInv'
  BY FlightStepTokens DEF FlightStep, FlightPrepare, FlightAsk, FlightStore, WholeInv
<1>2. calls' = calls \/ \E creds : Landed(f, creds)
  BY DEF FlightStep, FlightPrepare, FlightAsk, FlightStore
<1>3. /\ \A c \in calls' : c \in calls \/ ~Watched(c)
      /\ \A c \in calls : Settling(c) => c \in calls'
  BY <1>2, LandedQuiet DEF WholeInv, TokensInv
<1>4. DOMAIN families \subseteq DOMAIN families'
  BY DEF FlightStep, FlightPrepare, FlightAsk, FlightStore
<1>5. Grows /\ VaultWhole'
  BY <1>1, <1>4, FlightStepKeeps DEF Grows, WholeInv, VaultWhole
<1>6. FlightsWhole'
  <2>1. \A g \in flights : VaultIs(g.creds) => vault.acct = g.creds.acct
    BY DEF WholeInv, FlightsWhole
  <2>2. \A g \in flights' : \E h \in flights : g.creds.acct = h.creds.acct /\ g.creds.gen = h.creds.gen
    BY FlightStepKeeps
  <2> QED
    BY <1>5, <2>1, <2>2 DEF FlightsWhole, VaultIs, Grows
<1>7. CallsWhole'
  BY <1>3, <1>5, QuietWhole
<1>8. RowWhole'
  BY <1>1, <1>3, <1>5, RowStays DEF WholeInv
<1> QED
  BY <1>1, <1>5, <1>6, <1>7, <1>8 DEF WholeInv

-----------------------------------------------------------------------------
(* Together *)

LEMMA SessionStepWhole ==
    ASSUME WholeInv, NEW c \in calls, SessionStep(c)
    PROVE  WholeInv'
  BY LoginAnsweredWhole, LoginRefusedWhole, LoginSaveWhole, LoginSavedWhole, LoginPulledWhole,
     LoginActivateWhole, LoginActivatedWhole, LoginUndoWhole, LoginClearWhole, LogoutClearWhole,
     LogoutReadWhole, LogoutUndoWhole, LogoutTellWhole, CallStepWhole, RefreshWhole,
     FirstCompleteWhole DEF SessionStep
===============================================================================
