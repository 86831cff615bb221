----------------------------- MODULE UsageMeters -----------------------------
(* Access, API tokens and usage limits (src/src/authz/mod.rs, policy.rs,      *)
(* tokens.rs, usage.rs): a request is checked against its account's meter     *)
(* when it is authorized and charged when it is done, while others run, days  *)
(* pass and the operator changes limits, tokens and meters.  Days are         *)
(* numbers, the epoch is 0; requests stand for output characters, too.        *)
EXTENDS Naturals, Sequences, FiniteSets, SequencesExt

CONSTANTS
    UsagePeer,      \* peers, each with an account of its own
    ApiToken,       \* token ids
    UsageTask,      \* requests served at once
    Overflow,       \* the account "*"
    UsageLimits,    \* limits the operator may set: period and max_requests
    FirstLimits,    \* the limits of the policy and of a new token
    MonthDays,      \* days of a month
    MaxAccounts,    \* MAX_ACCOUNTS
    MaxTokens,      \* MAX_TOKENS
    FirstDay, LastDay,
    MaxUsageOps,    \* bound on the operator's commands
    MaxUsageFaults, \* bound on failed writes and restarts
    NoLimits        \* no authorization, no token, no meter

Period == {"day", "month", "total"}

ASSUME UsageAssumption ==
    /\ {MonthDays, MaxAccounts, MaxTokens, FirstDay} \subseteq Nat \ {0}
    /\ {LastDay, MaxUsageOps, MaxUsageFaults} \subseteq Nat
    /\ FirstLimits \in UsageLimits
    /\ \A l \in UsageLimits : l.period \in Period /\ l.max \in Nat
    /\ Overflow \notin UsagePeer \cup ApiToken
    /\ NoLimits \notin UsageLimits /\ NoLimits \notin Period

VARIABLES
    access,      \* policy.json: the peers denied, the limits of peers
    tokens,      \* TokenBook: limits and whether revoked, or NoLimits
    tokensDirty, tokensFile,
    meters,      \* UsageBook.ai
    usageDirty, usageFile,
    authorized,  \* the Authorized each task holds: its account and limits
    today,
    charged,     \* history: requests charged to Overflow, by the period of their limits
    chargedSaved,\* history: as of the last write of usage.json
    withdrawnTokens,  \* history: tokens the operator was told are revoked or deleted
    usageOps, usageFaults

usageVars == <<access, tokens, tokensDirty, tokensFile, meters, usageDirty, usageFile, authorized,
               today, charged, chargedSaved, withdrawnTokens, usageOps, usageFaults>>
tokenVars == <<tokens, tokensDirty, tokensFile, withdrawnTokens>>
meterVars == <<meters, usageDirty, usageFile, charged, chargedSaved>>

Account == UsagePeer \cup ApiToken \cup {Overflow}
NewMeter == [start |-> 0, requests |-> 0, longest |-> NoLimits]
NoCharges == [p \in Period |-> 0]
UsageOp == usageOps < MaxUsageOps /\ usageOps' = usageOps + 1
UsageFault == usageFaults < MaxUsageFaults /\ usageFaults' = usageFaults + 1

(* period_start *)
PeriodStart(period) ==
    CASE period = "day" -> today
      [] period = "month" -> today - (today % MonthDays)
      [] period = "total" -> 0

PeriodRank(period) == CASE period = "day" -> 0 [] period = "month" -> 1 [] period = "total" -> 2

(* Meter::rollover *)
Rollover(m, period) ==
    IF m.start = PeriodStart(period) THEN m
    ELSE [m EXCEPT !.start = PeriodStart(period), !.requests = 0]

(* Mutant: the overflow meter rolls over with whoever is using it.           *)
RolloverAccountSimply(m, account, period) == Rollover(m, period)

(* Meter::rollover_account: the overflow meter keeps the longest period seen, *)
(* and what was counted when that grows.                                     *)
RolloverAccount(m, account, period) ==
    IF account # Overflow THEN Rollover(m, period)
    ELSE IF m.longest = NoLimits THEN [Rollover(m, period) EXCEPT !.longest = period]
    ELSE IF PeriodRank(period) > PeriodRank(m.longest)
         THEN [m EXCEPT !.longest = period, !.start = PeriodStart(period)]
    ELSE Rollover(m, m.longest)

(* UsageBook::account *)
AccountFor(requested) ==
    IF \/ requested \in DOMAIN meters
       \/ Cardinality(DOMAIN meters \ {Overflow}) < MaxAccounts
    THEN requested ELSE Overflow

MeterOf(account) == IF account \in DOMAIN meters THEN meters[account] ELSE NewMeter
WithMeter(account, m) ==
    [a \in DOMAIN meters \cup {account} |-> IF a = account THEN m ELSE meters[a]]

UsageInit ==
    /\ access = [denied |-> {}, limits |-> FirstLimits]
    /\ tokens = [k \in ApiToken |-> NoLimits] /\ tokensFile = tokens /\ tokensDirty = FALSE
    /\ meters = <<>> /\ usageFile = <<>> /\ usageDirty = FALSE
    /\ authorized = [t \in UsageTask |-> NoLimits]
    /\ today = FirstDay /\ charged = NoCharges /\ chargedSaved = NoCharges
    /\ withdrawnTokens = {} /\ usageOps = 0 /\ usageFaults = 0

-----------------------------------------------------------------------------
(* UsageBook::check, which creates the meter whatever it answers.            *)
CheckUsage(t, account, limits) ==
    LET m == RolloverAccount(MeterOf(account), account, limits.period) IN
    /\ meters' = WithMeter(account, m) /\ usageDirty' = TRUE
    /\ authorized' = IF m.requests >= limits.max THEN authorized
                     ELSE [authorized EXCEPT ![t] = [account |-> account, limits |-> limits]]

(* authorize_peer_owned, of the AI service in open mode.                     *)
AuthorizePeer(t, p) ==
    /\ authorized[t] = NoLimits /\ p \notin access.denied
    /\ CheckUsage(t, AccountFor(p), access.limits)
    /\ UNCHANGED <<access, tokenVars, usageFile, today, charged, chargedSaved, usageOps,
                   usageFaults>>

(* authorize_api: lookup finds a live token; touch_token marks its use.      *)
AuthorizeApi(t, k) ==
    /\ authorized[t] = NoLimits
    /\ tokens[k] # NoLimits /\ ~tokens[k].revoked
    /\ CheckUsage(t, AccountFor(k), tokens[k].limits)
    /\ tokensDirty' = (tokensDirty \/ authorized'[t] # NoLimits)
    /\ UNCHANGED <<access, tokens, tokensFile, withdrawnTokens, usageFile, today, charged,
                   chargedSaved, usageOps, usageFaults>>

(* Authorized::record once the request is done: the meter may have been      *)
(* reset meanwhile, so the account is resolved again.                        *)
RecordUsage(t) ==
    LET a == authorized[t]
        account == AccountFor(a.account)
        m == RolloverAccount(MeterOf(account), account, a.limits.period)
    IN  /\ a # NoLimits /\ authorized' = [authorized EXCEPT ![t] = NoLimits]
        /\ meters' = WithMeter(account, [m EXCEPT !.requests = @ + 1]) /\ usageDirty' = TRUE
        /\ charged' = IF account = Overflow THEN [charged EXCEPT ![a.limits.period] = @ + 1]
                      ELSE charged
        /\ UNCHANGED <<access, tokenVars, usageFile, today, chargedSaved, usageOps, usageFaults>>

(* The request was refused later on (busy, model not shared): no charge.     *)
NotCharged(t) ==
    /\ authorized[t] # NoLimits /\ authorized' = [authorized EXCEPT ![t] = NoLimits]
    /\ UNCHANGED <<access, tokenVars, meterVars, today, usageOps, usageFaults>>

(* flush_best_effort: usage.json, then tokens.json; a write that fails may   *)
(* have replaced the file.                                                   *)
FlushUsage ==
    /\ usageDirty
    /\ \/ /\ usageFile' = meters /\ usageDirty' = FALSE /\ chargedSaved' = charged
          /\ UNCHANGED usageFaults
       \/ /\ UsageFault
          /\ \/ usageFile' = meters /\ chargedSaved' = charged
             \/ UNCHANGED <<usageFile, chargedSaved>>
          /\ UNCHANGED usageDirty
    /\ UNCHANGED <<access, tokenVars, meters, authorized, today, charged, usageOps>>

FlushTokens ==
    /\ tokensDirty
    /\ \/ tokensFile' = tokens /\ tokensDirty' = FALSE /\ UNCHANGED usageFaults
       \/ UsageFault /\ tokensFile' \in {tokens, tokensFile} /\ UNCHANGED tokensDirty
    /\ UNCHANGED <<access, tokens, withdrawnTokens, meterVars, authorized, today, usageOps>>

-----------------------------------------------------------------------------
(* Store::command on tokens.json: saved, then exposed.                       *)
TokenCommand(next, gone) ==
    /\ UsageOp
    /\ \/ /\ tokensFile' = next /\ tokens' = next /\ tokensDirty' = FALSE
          /\ withdrawnTokens' = withdrawnTokens \cup gone /\ UNCHANGED usageFaults
       \/ /\ UsageFault /\ tokensFile' \in {tokensFile, next}
          /\ UNCHANGED <<tokens, tokensDirty, withdrawnTokens>>
    /\ UNCHANGED <<access, meterVars, authorized, today>>

(* authz.token.create draws an id that was never used.                       *)
TokenCreate(k, limits) ==
    /\ tokens[k] = NoLimits /\ k \notin withdrawnTokens
    /\ Cardinality({j \in ApiToken : tokens[j] # NoLimits}) < MaxTokens
    /\ TokenCommand([tokens EXCEPT ![k] = [limits |-> limits, revoked |-> FALSE]], {})

TokenUpdate(k, limits) ==
    /\ tokens[k] # NoLimits
    /\ TokenCommand([tokens EXCEPT ![k].limits = limits], {})

TokenRevoke(k) ==
    /\ tokens[k] # NoLimits
    /\ TokenCommand([tokens EXCEPT ![k].revoked = TRUE], {k})

TokenDelete(k) ==
    /\ tokens[k] # NoLimits
    /\ TokenCommand([tokens EXCEPT ![k] = NoLimits], {k})

(* authz.usage.reset, of one account or of all.                              *)
UsageReset(accounts) ==
    LET left == [a \in DOMAIN meters \ accounts |-> meters[a]]
        kept == IF Overflow \in accounts THEN NoCharges ELSE charged
    IN  /\ UsageOp /\ accounts \cap DOMAIN meters # {}
        /\ \/ /\ meters' = left /\ usageFile' = left /\ usageDirty' = FALSE
              /\ charged' = kept /\ chargedSaved' = kept /\ UNCHANGED usageFaults
           \/ /\ UsageFault
              /\ \/ usageFile' = left /\ chargedSaved' = kept
                 \/ UNCHANGED <<usageFile, chargedSaved>>
              /\ UNCHANGED <<meters, usageDirty, charged>>
        /\ UNCHANGED <<access, tokenVars, authorized, today>>

(* authz.limits.set, authz.deny.add and authz.deny.remove; the file of the    *)
(* policy is left out, what a restart reads of it is access.                 *)
SetPolicy(denied, limits) ==
    /\ UsageOp /\ access' = [denied |-> denied, limits |-> limits] /\ access' # access
    /\ UNCHANGED <<tokenVars, meterVars, authorized, today, usageFaults>>

(* A day passes: what was charged in a period that ends no longer counts.    *)
DayPasses ==
    /\ today < LastDay /\ today' = today + 1
    /\ LET ends(p) == p = "day" \/ (p = "month" /\ (today + 1) % MonthDays = 0)
           left(c) == [p \in Period |-> IF ends(p) THEN 0 ELSE c[p]]
       IN  charged' = left(charged) /\ chargedSaved' = left(chargedSaved)
    /\ UNCHANGED <<access, tokenVars, meters, usageDirty, usageFile, authorized, usageOps,
                   usageFaults>>

(* load_or_recover: a file that does not validate is replaced by defaults.   *)
ValidUsage(f) == Cardinality(DOMAIN f \ {Overflow}) <= MaxAccounts
AuthzRestart ==
    /\ UsageFault
    /\ meters' = IF ValidUsage(usageFile) THEN usageFile ELSE <<>>
    /\ tokens' = tokensFile /\ usageDirty' = FALSE /\ tokensDirty' = FALSE
    /\ charged' = chargedSaved
    /\ authorized' = [t \in UsageTask |-> NoLimits]
    /\ UNCHANGED <<access, tokensFile, usageFile, today, chargedSaved, withdrawnTokens, usageOps>>

UsageNext ==
    \/ \E t \in UsageTask :
          \/ \E p \in UsagePeer : AuthorizePeer(t, p)
          \/ \E k \in ApiToken : AuthorizeApi(t, k)
          \/ RecordUsage(t) \/ NotCharged(t)
    \/ FlushUsage \/ FlushTokens
    \/ \E k \in ApiToken :
          \/ \E limits \in UsageLimits : TokenCreate(k, limits) \/ TokenUpdate(k, limits)
          \/ TokenRevoke(k) \/ TokenDelete(k)
    \/ \E a \in Account : UsageReset({a})
    \/ UsageReset(Account)
    \/ \E denied \in SUBSET UsagePeer, limits \in UsageLimits : SetPolicy(denied, limits)
    \/ DayPasses \/ AuthzRestart

UsageSpec == UsageInit /\ [][UsageNext]_usageVars

-----------------------------------------------------------------------------
(* Types of the state: meters, tokens and authorizations.                    *)
UsageTypeOK ==
    /\ DOMAIN meters \subseteq Account /\ DOMAIN usageFile \subseteq Account
    /\ \A a \in DOMAIN meters : /\ meters[a].start \in 0..today /\ meters[a].requests \in Nat
                                /\ meters[a].longest \in Period \cup {NoLimits}
                                /\ a # Overflow => meters[a].longest = NoLimits
    /\ \A k \in ApiToken : tokens[k] = NoLimits \/
          (tokens[k].limits \in UsageLimits /\ tokens[k].revoked \in BOOLEAN)
    /\ \A t \in UsageTask : authorized[t] = NoLimits \/
          (authorized[t].account \in Account /\ authorized[t].limits \in UsageLimits)

(* Usage is not forgotten (rollover_account, record, load_or_recover): the    *)
(* overflow meter counts at least what was charged to it in the current day,  *)
(* month or ever, although accounts with other periods share it; and the     *)
(* file never holds so many accounts that a restart would discard it, though  *)
(* an authorization may outlive a reset of its meter.                         *)
UsageCounted ==
    /\ \A p \in Period : charged[p] > 0 =>
          Overflow \in DOMAIN meters /\ meters[Overflow].requests >= charged[p]
    /\ ValidUsage(meters) /\ ValidUsage(usageFile)

(* A token whose revocation or deletion was reported is not let in again: the *)
(* activity that flushes write and the files a failed command or a restart    *)
(* leaves never bring it back.                                                *)
TokensStayRevoked ==
    \A k \in withdrawnTokens : tokens[k] = NoLimits \/ tokens[k].revoked
=============================================================================
