------------------------------- MODULE ApiKeys -------------------------------
(***************************************************************************)
(* Who a request is from: AuthMiddleware with ApiKeyAuthService, whose      *)
(* processes keep the answers for a while.                                  *)
(*                                                                         *)
(* Time is in half seconds, because a cached key's lifetime is cut to whole *)
(* seconds.  A key is looked up and its answer cached without an await.     *)
(***************************************************************************)
EXTENDS Integers

CONSTANTS
    Configured,      \* AUTH_API_KEYS_JSON: keys -> when they expire
    Documented,      \* other keys -> when they expire, once their document is written
    Replicas,        \* processes
    ConnectAttempts, \* _firestore_connect_attempts
    AuthTtl,         \* auth_cache_ttl_seconds, in half seconds
    Horizon,         \* bound: the clock
    MaxStarts        \* bound: processes started again

Second == 2
Keys   == DOMAIN Configured \cup DOMAIN Documented

ASSUME ApiKeysAssumption ==
    /\ DOMAIN Configured \cap DOMAIN Documented = {}
    /\ \A k \in DOMAIN Configured : Configured[k] \in Nat
    /\ \A k \in DOMAIN Documented : Documented[k] \in Nat
    /\ ConnectAttempts \in Nat \ {0} /\ AuthTtl \in Nat /\ AuthTtl >= Second
    /\ Horizon \in Nat /\ MaxStarts \in Nat

VARIABLES
    akNow,       \* the clock
    akDocument,  \* the auth_api_keys_collection: absent, active or revoked
    akUp,        \* the processes that run
    akEntry,     \* _cache of a process: a key's answer, and until when it is used
    akStarts,    \* history: processes started again
    akValidAt,   \* history: when a lookup could last find a key valid
    akInvalidAt  \* history: when it could last find it invalid

akVars == <<akNow, akDocument, akUp, akEntry, akStarts, akValidAt, akInvalidAt>>

Never   == -AuthTtl
Missing == [valid |-> FALSE, until |-> Never]

AkTypeOK ==
    /\ akNow \in 0..Horizon /\ akDocument \in [DOMAIN Documented -> {"absent", "active", "revoked"}]
    /\ akUp \subseteq Replicas /\ akStarts \in 0..MaxStarts
    /\ akEntry \in [Replicas -> [Keys -> [valid : BOOLEAN, until : Never..Horizon + AuthTtl]]]
    /\ akValidAt \in [Keys -> Never..Horizon] /\ akInvalidAt \in [Keys -> Never..Horizon]

AkInit ==
    /\ akNow = 0 /\ akDocument = [k \in DOMAIN Documented |-> "absent"]
    /\ akUp = Replicas /\ akStarts = 0
    /\ akEntry = [r \in Replicas |-> [k \in Keys |-> Missing]]
    /\ akValidAt = [k \in Keys |-> Never] /\ akInvalidAt = [k \in Keys |-> Never]

Expiry(k) == IF k \in DOMAIN Configured THEN Configured[k] ELSE Documented[k]

(* _lookup_config, then _lookup_firestore.                                   *)
Valid(k) == akNow < Expiry(k) /\ (k \in DOMAIN Configured \/ akDocument[k] = "active")

(* _cache_set: at least a second, and else no longer than the key.           *)
Lifetime(k) ==
    LET remaining == ((Expiry(k) - akNow) \div Second) * Second
    IN  IF ~Valid(k) THEN AuthTtl
        ELSE IF remaining < Second THEN Second ELSE IF remaining < AuthTtl THEN remaining ELSE AuthTtl

(* The other way: a cached key keeps its lifetime whatever it has left.      *)
FoundForTtl(k) == [valid |-> Valid(k), until |-> akNow + AuthTtl]

Found(k) == [valid |-> Valid(k), until |-> akNow + Lifetime(k)]

(* _cache_get: an entry is used until its time.                              *)
Usable(r, k) == akEntry[r][k].until > akNow

(* authenticate, in AuthMiddleware.dispatch.  A private path is refused      *)
(* without a valid key; elsewhere a valid key names the caller and any other *)
(* leaves the client's address.                                              *)
Authenticate(r, k) ==
    /\ r \in akUp /\ ~Usable(r, k)
    /\ akEntry' = [akEntry EXCEPT ![r][k] = Found(k)]
    /\ UNCHANGED <<akNow, akDocument, akUp, akStarts, akValidAt, akInvalidAt>>

NoteValidity ==
    /\ akValidAt' = [k \in Keys |-> IF Valid(k) THEN akNow ELSE akValidAt[k]]
    /\ akInvalidAt' = [k \in Keys |-> IF Valid(k) THEN akInvalidAt[k] ELSE akNow]

(* issue_api_key: scripts/generate_api_key.py clears the entry of its own    *)
(* process only.  An operator revokes a key in its document.                 *)
Write(k, before, after) ==
    /\ k \in DOMAIN Documented /\ akDocument[k] = before
    /\ akDocument' = [akDocument EXCEPT ![k] = after]
    /\ NoteValidity /\ UNCHANGED <<akNow, akUp, akEntry, akStarts>>
Issue(k)  == Write(k, "absent", "active")
Revoke(k) == Write(k, "active", "revoked")

Dies(r) ==
    /\ r \in akUp /\ akStarts < MaxStarts /\ akUp' = akUp \ {r}
    /\ akEntry' = [akEntry EXCEPT ![r] = [k \in Keys |-> Missing]]
    /\ UNCHANGED <<akNow, akDocument, akStarts, akValidAt, akInvalidAt>>

(* __init__ and _build_firestore_client: the settings are checked and the    *)
(* store is tried before the process serves anything.                        *)
Starts(r) ==
    \E failures \in 0..ConnectAttempts :
        /\ r \notin akUp /\ akStarts < MaxStarts /\ akStarts' = akStarts + 1
        /\ akUp' = IF failures < ConnectAttempts THEN akUp \cup {r} ELSE akUp
        /\ UNCHANGED <<akNow, akDocument, akEntry, akValidAt, akInvalidAt>>

AkTick ==
    /\ akNow < Horizon /\ akNow' = akNow + 1
    /\ NoteValidity /\ UNCHANGED <<akDocument, akUp, akEntry, akStarts>>

AkNext ==
    \/ \E r \in Replicas : Dies(r) \/ Starts(r) \/ \E k \in Keys : Authenticate(r, k)
    \/ \E k \in Keys : Issue(k) \/ Revoke(k)
    \/ AkTick

-----------------------------------------------------------------------------

(* A process answers with a key's state of less than the cache's lifetime    *)
(* ago: after that time a revoked key is refused everywhere, and a key that  *)
(* was tried before it was issued is accepted.                               *)
AnswersAreRecent ==
    \A r \in akUp, k \in Keys :
        Usable(r, k) /\ akEntry[r][k].valid # Valid(k) =>
            akNow - (IF akEntry[r][k].valid THEN akValidAt[k] ELSE akInvalidAt[k]) < AuthTtl

(* A key that has expired is accepted for less than a second more.           *)
ExpiredSoonRefused ==
    \A r \in akUp, k \in Keys : akEntry[r][k].valid /\ Usable(r, k) => akNow < Expiry(k) + Second
=============================================================================
