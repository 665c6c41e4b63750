------------------------------ MODULE ApiKeys -------------------------------
(***************************************************************************)
(* api/auth.py and the start of the API (api/main.py): API_KEYS is parsed  *)
(* on every request, and the service does not start without keys.          *)
(***************************************************************************)
EXTENDS Naturals, Sequences, FiniteSets

CONSTANTS
  Key,          (* keys a client may send                                 *)
  ShortKey,     (* those of them under MIN_KEY_LENGTH                     *)
  Principal,
  NoPrincipal,  (* the entry has no principal; the key has none           *)
  Raws,         (* values that settings.api_keys may have                 *)
  MaxChanges    (* bound: changes of the setting                          *)

(* Between two commas: nothing, or a key with or without a principal.      *)
Blank == [blank |-> TRUE]
Entry == {Blank} \cup [key : Key, principal : Principal \cup {NoPrincipal}]

ASSUME KeysAssumption ==
  /\ ShortKey \subseteq Key /\ NoPrincipal \notin Principal /\ Raws \subseteq Seq(Entry)
  /\ MaxChanges \in Nat
  /\ {"500", "503", "401"} \cap (Principal \cup {NoPrincipal}) = {}

VARIABLES
  up,        (* the API has started                                       *)
  config,    (* settings.api_keys                                         *)
  changes    (* how often it was changed                                  *)

keyVars == <<up, config, changes>>

KeysTypeOK == up \in BOOLEAN /\ config \in Raws /\ changes \in 0..MaxChanges
KeysInit   == up = FALSE /\ config \in Raws /\ changes = 0

-----------------------------------------------------------------------------
(* The map of keys, or that a ValueError was raised.                       *)
NoKeys == [ok |-> TRUE, of |-> [k \in {} |-> NoPrincipal]]

(* keys[key] = principal.                                                  *)
Put(of, key, principal) ==
  [k \in DOMAIN of \cup {key} |-> IF k = key THEN principal ELSE of[k]]

(* A key that occurs again replaces the entry before.                      *)
Take_Replaces(keys, e) ==
  IF e = Blank \/ ~keys.ok THEN keys
  ELSE IF e.principal = NoPrincipal \/ e.key \in ShortKey THEN [keys EXCEPT !.ok = FALSE]
  ELSE [keys EXCEPT !.of = Put(@, e.key, e.principal)]
(* One round of the loop over the entries.                                 *)
Take(keys, e) ==
  IF e = Blank \/ ~keys.ok THEN keys
  ELSE IF \/ e.principal = NoPrincipal
          \/ e.key \in ShortKey
          \/ e.key \in DOMAIN keys.of THEN [keys EXCEPT !.ok = FALSE]
  ELSE [keys EXCEPT !.of = Put(@, e.key, e.principal)]

(* Rounds(raw)[i]: the outcome of the first i rounds.                      *)
Rounds(raw) ==
  LET after[i \in 0..Len(raw)] == IF i = 0 THEN NoKeys ELSE Take(after[i - 1], raw[i])
  IN after

Parse(raw) == Rounds(raw)[Len(raw)]

PrincipalFor(k, keys) == IF k \in DOMAIN keys.of THEN keys.of[k] ELSE NoPrincipal

(* require_principal: who a request with key k is from, or its answer.     *)
Caller(k) ==
  LET keys == Parse(config)
  IN IF ~keys.ok THEN "500"
     ELSE IF DOMAIN keys.of = {} THEN "503"
     ELSE IF PrincipalFor(k, keys) = NoPrincipal THEN "401"
     ELSE PrincipalFor(k, keys)

-----------------------------------------------------------------------------
(* lifespan: the service starts only with a well-formed list of keys that  *)
(* is not empty.                                                           *)
Boot ==
  /\ ~up /\ Parse(config).ok /\ DOMAIN Parse(config).of # {}
  /\ up' = TRUE /\ UNCHANGED <<config, changes>>

(* The setting is changed, also while the service runs.                    *)
Configure ==
  /\ changes < MaxChanges /\ changes' = changes + 1
  /\ config' \in Raws \ {config}
  /\ UNCHANGED up

-----------------------------------------------------------------------------
(* No entry of API_KEYS is quietly overridden by another: each is honoured *)
(* as it stands, or every request is refused (auth.py:66).                 *)
NoEntryOverridden ==
  \A e \in {config[i] : i \in DOMAIN config} \ {Blank} :
    Caller(e.key) \in {e.principal, "500"} \ {NoPrincipal}
=============================================================================
