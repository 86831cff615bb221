----------------------------- MODULE Capabilities -----------------------------
(* Delegated capabilities at one daemon (src/src/authz/delegation.rs,        *)
(* capability.rs): it issues them, holds those issued to it, remembers those *)
(* peers present to it and those that are revoked, and lets a peer pass on   *)
(* the strength of a presented one.  A capability is its id; a peer is its   *)
(* DID.  Capabilities with a bad signature, audience, scope or attenuation   *)
(* are refused before any state is read and do not occur.                    *)
EXTENDS Naturals, Sequences, FiniteSets, SequencesExt, FiniteSetsExt, VecOps

CONSTANTS
    Cap,           \* capability ids
    capOf,         \* issuer, aud, exp, parent and whether it names one escrow slot
    NoCap,         \* the parent of a root
    Did, Me,       \* identities, this daemon's
    MaxLifetime,   \* MAX_LIFETIME_MS
    MaxHeld, MaxDelivered, MaxIssued, MaxPresented, MaxPerNode, MaxRevoked,
    MaxCapTime,    \* bound on the clock
    MaxCapOps,     \* bound on commands and messages
    MaxCapFaults   \* bound on failed saves and restarts

ASSUME CapAssumption ==
    /\ NoCap \notin Cap /\ Me \in Did
    /\ {MaxLifetime, MaxHeld, MaxDelivered, MaxIssued, MaxPresented, MaxPerNode, MaxRevoked}
          \subseteq Nat \ {0}
    /\ {MaxCapTime, MaxCapOps, MaxCapFaults} \subseteq Nat
    /\ \A c \in Cap :
          /\ capOf[c].issuer \in Did /\ capOf[c].aud \in Did /\ capOf[c].exp \in 1..MaxLifetime
          /\ capOf[c].parent # NoCap => /\ capOf[c].issuer = capOf[capOf[c].parent].aud
                                        /\ capOf[c].exp <= capOf[capOf[c].parent].exp

VARIABLES
    book,        \* Store.caps: issued, withdrawn (issued and revoked), held, revoked, presented
    capDirty,    \* Book.dirty
    capFiles,    \* issued.json, held.json and revoked.json
    issuers,     \* policy.ai.issuers
    capNow,      \* the clock
    refusedCaps, \* history: ids whose revocation this daemon has taken on
    refusedSaved,\* history: those of them it must know after a restart
    capOps, capFaults

capVars == <<book, capDirty, capFiles, issuers, capNow, refusedCaps, refusedSaved, capOps,
             capFaults>>

-----------------------------------------------------------------------------
(* Capability::chain, at most MAX_DEPTH links; root.                        *)
Parents(S) == {capOf[c].parent : c \in S} \ {NoCap}
Chain(c) == {c} \cup Parents({c}) \cup Parents(Parents({c}))
Root(c) == CHOOSE r \in Chain(c) : capOf[r].parent = NoCap

(* is_revoked, live *)
IsRevoked(b, c) ==
    \/ \E i \in DOMAIN b.revoked : b.revoked[i].id = c /\ b.revoked[i].exp > capNow
    \/ c \in b.withdrawn
LiveCap(b, c) == \A link \in Chain(c) : capOf[link].exp > capNow /\ ~IsRevoked(b, link)

(* verify_cap: the owner of an escrow slot is the root of a capability that  *)
(* names that slot.                                                          *)
TrustedRoot(c, owner) ==
    \/ capOf[Root(c)].issuer \in issuers \cup {Me}
    \/ capOf[c].slot /\ owner = capOf[Root(c)].issuer
Verifies(b, c, owner) == LiveCap(b, c) /\ TrustedRoot(c, owner)

(* Book::prune; a withdrawn capability that is presented again is kept out   *)
(* by verify_cap.                                                            *)
PruneBook(b) ==
    LET kept == Retain(b.revoked, {r \in Range(b.revoked) : r.exp > capNow})
        ids == {kept[i].id : i \in DOMAIN kept}
    IN  [issued |-> {c \in b.issued : capOf[c].exp > capNow},
         withdrawn |-> {c \in b.withdrawn : capOf[c].exp > capNow},
         held |-> {c \in b.held : capOf[c].exp > capNow},
         revoked |-> kept,
         presented |-> Retain(b.presented, {p \in Range(b.presented) :
                          \A link \in Chain(p.cap) : capOf[link].exp > capNow /\ link \notin ids})]
Pruned(b) ==
    LET p == PruneBook(b) IN <<b.issued, b.held, b.revoked>> # <<p.issued, p.held, p.revoked>>

(* Book::revoke: the revocation lasts as long as the longest-lived link of    *)
(* that id the daemon knows, or as long as a capability may; a full table     *)
(* forgets its oldest revocation.                                            *)
KnownChains(b) == UNION {Chain(c) : c \in b.issued \cup b.held \cup {b.presented[i].cap :
                                                                       i \in DOMAIN b.presented}}
(* Mutant: the revocation lasts as long as the capability presented.         *)
RevocationExpOfPresented(b, c) ==
    LET known == {capOf[p.cap].exp : p \in {q \in Range(b.presented) : c \in Chain(q.cap)}}
    IN  IF known = {} THEN capNow + MaxLifetime ELSE Max(known)

RevocationExp(b, c) ==
    LET known == {capOf[k].exp : k \in KnownChains(b) \cap {c}}
                   \cup {b.revoked[i].exp : i \in {j \in DOMAIN b.revoked : b.revoked[j].id = c}}
    IN  IF known = {} THEN capNow + MaxLifetime ELSE Max(known)

Evicts(b, c) ==
    /\ RevocationExp(b, c) > capNow /\ Len(b.revoked) >= MaxRevoked
    /\ \A i \in DOMAIN b.revoked : b.revoked[i].id # c
RevokeIn(b, c) ==
    LET exp == RevocationExp(b, c)
        without == SelectSeq(b.presented, LAMBDA p : c \notin Chain(p.cap))
        mine == {i \in DOMAIN b.revoked : b.revoked[i].id = c}
        table == IF mine # {} THEN [i \in DOMAIN b.revoked |->
                                      IF i \in mine THEN [b.revoked[i] EXCEPT !.exp = Max({@, exp})]
                                      ELSE b.revoked[i]]
                 ELSE Append(IF Evicts(b, c) THEN Tail(b.revoked) ELSE b.revoked,
                             [id |-> c, exp |-> exp])
    IN  [b EXCEPT !.presented = without, !.revoked = IF exp <= capNow THEN @ ELSE table]

(* The revocations still promised after c is added: an evicted one is gone    *)
(* unless the daemon itself issued and withdrew the capability.              *)
Promised(S, b, c) ==
    (IF Evicts(b, c) THEN S \ ({Head(b.revoked).id} \ b.withdrawn) ELSE S) \cup {c}

(* insert_presented: the newest presentation of a capability, within the      *)
(* limits per node and in all.                                               *)
InsertPresented(b, n, c, trusted) ==
    LET others == SelectSeq(b.presented, LAMBDA p : ~(p.node = n /\ p.cap = c))
        own == SelectSeq(others, LAMBDA p : p.node = n)
        fits == IF Len(own) >= MaxPerNode THEN SelectSeq(others, LAMBDA p : p # own[1]) ELSE others
    IN  [b EXCEPT !.presented =
            Append(IF Len(fits) >= MaxPresented THEN Tail(fits) ELSE fits,
                   [node |-> n, cap |-> c, trusted |-> trusted])]

-----------------------------------------------------------------------------
SavedBook(b) == [issued |-> b.issued, withdrawn |-> b.withdrawn, held |-> b.held,
             revoked |-> b.revoked]
EmptyBook == [issued |-> {}, withdrawn |-> {}, held |-> {}, revoked |-> <<>>, presented |-> <<>>]

CapInit ==
    /\ book = EmptyBook /\ capDirty = FALSE /\ capFiles = SavedBook(EmptyBook)
    /\ issuers \in SUBSET (Did \ {Me})
    /\ capNow = 0 /\ refusedCaps = {} /\ refusedSaved = {} /\ capOps = 0 /\ capFaults = 0

CapOp == capOps < MaxCapOps /\ capOps' = capOps + 1
CapFault == capFaults < MaxCapFaults /\ capFaults' = capFaults + 1

(* save_caps writes issued.json, held.json and revoked.json in this order;    *)
(* what a failed save leaves is one of PartlySaved.                          *)
PartlySaved(b) ==
    LET s == SavedBook(b)
        i == [capFiles EXCEPT !.issued = s.issued, !.withdrawn = s.withdrawn]
        h == [i EXCEPT !.held = s.held]
    IN  {capFiles, i, h, s}

(* The end of cap_command: the change is exposed once it is saved.  A save   *)
(* that fails after revoked.json was replaced has forgotten, for the next     *)
(* start, the revocation the change evicts.                                  *)
Commands(next, promise) ==
    /\ CapOp
    /\ \/ /\ book' = next /\ capDirty' = FALSE /\ capFiles' = SavedBook(next)
          /\ refusedCaps' = promise /\ refusedSaved' = promise /\ UNCHANGED capFaults
       \/ /\ CapFault /\ capFiles' \in PartlySaved(next)
          /\ refusedSaved' = refusedSaved \cap promise
          /\ UNCHANGED <<book, capDirty, refusedCaps>>
    /\ UNCHANGED <<issuers, capNow>>

(* flush_best_effort, after the book became b.                               *)
Flushes(b, dirty, promise) ==
    /\ book' = b /\ refusedCaps' = promise
    /\ \/ /\ dirty /\ capFiles' = SavedBook(b) /\ capDirty' = FALSE
          /\ refusedSaved' = promise /\ UNCHANGED capFaults
       \/ /\ dirty /\ CapFault /\ capFiles' \in PartlySaved(b) /\ capDirty' = TRUE
          /\ refusedSaved' = refusedSaved \cap promise
       \/ ~dirty /\ capDirty' = FALSE /\ UNCHANGED <<capFiles, refusedSaved, capFaults>>
    /\ UNCHANGED <<issuers, capNow>>

(* authz.cap.issue, with a fresh id; the parent must be held and live.       *)
CapIssue(c) ==
    LET b == PruneBook(book) IN
    /\ capOf[c].issuer = Me /\ c \notin book.issued /\ LiveCap(b, c)
    /\ Cardinality(b.issued) < MaxIssued
    /\ capOf[c].parent # NoCap => capOf[c].parent \in b.held
    /\ Commands([b EXCEPT !.issued = @ \cup {c}], refusedCaps)

(* import_cap: the holder checks the chain, not whether it trusts the root.  *)
Importable(b, c) ==
    /\ capOf[c].aud = Me /\ LiveCap(b, c)
    /\ c \in b.held \/ Cardinality(b.held) < MaxHeld

CapImport(c) ==
    LET b == PruneBook(book) IN
    /\ Importable(b, c)
    /\ Commands([b EXCEPT !.held = @ \cup {c}], refusedCaps)

(* authz.cap.remove *)
CapRemove(c) ==
    LET b == PruneBook(book) IN c \in b.held /\ Commands([b EXCEPT !.held = @ \ {c}], refusedCaps)

(* authz.cap.revoke: of a capability this daemon issued, or of any, locally.  *)
CapRevoke(c, local) ==
    LET b == PruneBook(book)
        marked == IF local THEN b ELSE [b EXCEPT !.withdrawn = @ \cup {c}]
    IN  /\ local \/ c \in b.issued
        /\ Commands(RevokeIn(marked, c), Promised(refusedCaps, marked, c))

(* authz.cap.list and authz.cap.verify save what they pruned, too.           *)
CapList == Pruned(book) /\ Commands(PruneBook(book), refusedCaps)

(* receive_cap, mistl-cap-present-v1 from the verified holder: a capability   *)
(* for one slot is kept as a candidate when only its root is unknown.        *)
ReceivePresent(c) ==
    LET trusted == Verifies(book, c, NoCap)
        keep == trusted \/ (capOf[c].slot /\ LiveCap(book, c))
    IN  /\ CapOp /\ capOf[c].aud # Me
        /\ Flushes(IF keep THEN InsertPresented(book, capOf[c].aud, c, trusted) ELSE book,
                   capDirty, refusedCaps)

(* mistl-cap-deliver-v1 from the issuer's own node.                          *)
ReceiveDeliver(c) ==
    LET taken == /\ Cardinality({h \in book.held \ {c} : capOf[h].issuer = capOf[c].issuer})
                       < MaxDelivered
                 /\ Importable(book, c)
    IN  /\ CapOp /\ capOf[c].issuer # Me
        /\ Flushes(IF taken THEN [book EXCEPT !.held = @ \cup {c}] ELSE book,
                   capDirty \/ taken, refusedCaps)

(* mistl-cap-revoke-v1, signed by an issuer of the policy or of a chain that  *)
(* is presented, trusted and live.                                           *)
RevokerTrusted(did) ==
    \/ did \in issuers
    \/ \E i \in DOMAIN book.presented :
          /\ book.presented[i].trusted /\ LiveCap(book, book.presented[i].cap)
          /\ \E link \in Chain(book.presented[i].cap) : capOf[link].issuer = did

ReceiveRevoke(did, c) ==
    /\ CapOp /\ did # Me
    /\ IF RevokerTrusted(did)
       THEN Flushes(RevokeIn(book, c), capDirty \/ RevocationExp(book, c) > capNow,
                    Promised(refusedCaps, book, c))
       ELSE Flushes(book, capDirty, refusedCaps)

(* presented_cap and mark_trusted of authorize_peer_owned: the capability by  *)
(* which a request of node n, about a slot of this owner, passes.            *)
PresentedCap(n, owner) ==
    {i \in DOMAIN book.presented :
        /\ book.presented[i].node = n /\ Verifies(book, book.presented[i].cap, owner)
        /\ \A j \in 1..i - 1 : ~(/\ book.presented[j].node = n
                                 /\ Verifies(book, book.presented[j].cap, owner))}

AuthorizeByCap(n, owner) ==
    /\ PresentedCap(n, owner) # {}
    /\ \E i \in PresentedCap(n, owner) :
          /\ ~book.presented[i].trusted
          /\ book' = [book EXCEPT !.presented[i].trusted = TRUE]
    /\ UNCHANGED <<capDirty, capFiles, issuers, capNow, refusedCaps, refusedSaved, capOps,
                   capFaults>>

(* authz.issuer.add and authz.issuer.remove                                  *)
SetIssuers(S) ==
    /\ CapOp /\ S # issuers /\ Me \notin S /\ issuers' = S
    /\ UNCHANGED <<book, capDirty, capFiles, capNow, refusedCaps, refusedSaved, capFaults>>

(* The minute tick of start: prune and flush.                                *)
CapTick ==
    /\ Pruned(book) \/ capDirty
    /\ Flushes(PruneBook(book), capDirty \/ Pruned(book), refusedCaps)
    /\ UNCHANGED capOps

CapTime ==
    /\ capNow < MaxCapTime /\ capNow' = capNow + 1
    /\ UNCHANGED <<book, capDirty, capFiles, issuers, refusedCaps, refusedSaved, capOps, capFaults>>

(* Book::load; what was presented is forgotten.                              *)
CapRestart ==
    /\ CapFault
    /\ book' = [issued |-> capFiles.issued, withdrawn |-> capFiles.withdrawn,
                held |-> capFiles.held, revoked |-> capFiles.revoked, presented |-> <<>>]
    /\ capDirty' = FALSE /\ refusedCaps' = refusedSaved
    /\ UNCHANGED <<capFiles, issuers, capNow, refusedSaved, capOps>>

CapNext ==
    \/ \E c \in Cap :
          \/ CapIssue(c) \/ CapImport(c) \/ CapRemove(c)
          \/ \E local \in BOOLEAN : CapRevoke(c, local)
          \/ ReceivePresent(c) \/ ReceiveDeliver(c)
          \/ \E did \in Did : ReceiveRevoke(did, c)
    \/ \E n, owner \in Did : AuthorizeByCap(n, owner)
    \/ \E S \in SUBSET Did : SetIssuers(S)
    \/ CapList \/ CapTick \/ CapTime \/ CapRestart

CapSpec == CapInit /\ [][CapNext]_capVars

-----------------------------------------------------------------------------
(* Types of the state: the tables and their files are within caps.           *)
CapTypeOK ==
    /\ book.withdrawn \subseteq book.issued /\ book.issued \subseteq Cap
    /\ Cardinality(book.issued) <= MaxIssued
    /\ book.held \subseteq Cap /\ Cardinality(book.held) <= MaxHeld
    /\ Len(book.revoked) <= MaxRevoked /\ Len(capFiles.revoked) <= MaxRevoked
    /\ Len(book.presented) <= MaxPresented
    /\ \A n \in Did : Cardinality({i \in DOMAIN book.presented : book.presented[i].node = n})
                         <= MaxPerNode
    /\ issuers \subseteq Did /\ capNow \in 0..MaxCapTime

(* A revocation lasts (Book::revoke, prune, is_revoked, load): no request     *)
(* passes by a capability with a link whose revocation this daemon took on -  *)
(* by command or from its issuer - until that link has expired; not through   *)
(* a shorter-lived child, a second presentation, pruning, a failed save or a  *)
(* restart.                                                                   *)
RevocationsHold ==
    \A n, owner \in Did : \A i \in PresentedCap(n, owner) :
        Chain(book.presented[i].cap) \cap refusedCaps = {}
=============================================================================
