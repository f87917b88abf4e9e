--------------------------- MODULE RefreshTokens ----------------------------
(***************************************************************************)
(* The refresh tokens of one admin: models/RefreshToken.js and the ends of *)
(* the sign-in routes in routes/auth.js.  What happens to the account in   *)
(* between is AdminSession.                                                *)
(*                                                                         *)
(* A token that is refreshed is replaced in two steps: its successor is    *)
(* inserted, then the old document is saved as revoked.  A revoked token   *)
(* that comes back ends all sessions of the admin.  Access tokens are not  *)
(* stored and left out.                                                    *)
(***************************************************************************)
EXTENDS Integers, FiniteSets

CONSTANTS
  Devices,  \* requests the server works on
  Tokens    \* refresh tokens

ASSUME TokenAssumption == IsFiniteSet(Tokens)

VARIABLES
  admin,    \* the account is there
  token,    \* refresh token -> state
  device,   \* request -> where it waits and the token it came with
  signIns,  \* history: tokens that were not made from another one
  forked    \* history: a token was replaced twice, or half

tokenVars == <<admin, token, device, signIns, forked>>

NoToken == "none"

DeviceSteps == {"idle", "token", "rotate", "retire", "revokeAll", "changed"}

DeviceStates == [step : DeviceSteps, old : Tokens \cup {NoToken}, rotated : BOOLEAN]

\* Type invariant.
TokenTypeOK ==
  /\ admin \in BOOLEAN
  /\ token \in [Tokens -> {"none", "live", "revoked", "expired"}]
  /\ device \in [Devices -> DeviceStates]
  /\ signIns \in 0..Cardinality(Tokens)
  /\ forked \in BOOLEAN

IdleDevice == [step |-> "idle", old |-> NoToken, rotated |-> FALSE]

TokenInit ==
  /\ admin = TRUE
  /\ token = [t \in Tokens |-> "none"]
  /\ device = [h \in Devices |-> IdleDevice]
  /\ signIns = 0
  /\ forked = FALSE

DeviceStarts(h, step, t) ==
  /\ device[h].step = "idle"
  /\ device' = [device EXCEPT ![h] = [IdleDevice EXCEPT !.step = step, !.old = t]]

DeviceEnds(h) == device' = [device EXCEPT ![h] = IdleDevice]

-----------------------------------------------------------------------------
(* Sign-ins                                                                *)

\* A login passed, a password was reset, or the own password was changed: only
\* the change ends the other sessions first.
SignedIn(h) ==
  /\ admin
  /\ \E step \in {"token", "changed"} : DeviceStarts(h, step, NoToken)
  /\ UNCHANGED <<admin, token, signIns, forked>>

\* sendTokenResponse
SendToken(h, t) ==
  /\ device[h].step = "token"
  /\ token[t] = "none"
  /\ token' = [token EXCEPT ![t] = "live"]
  /\ signIns' = signIns + 1
  /\ DeviceEnds(h)
  /\ UNCHANGED <<admin, forked>>

\* revokeAllForAdmin, after a reuse or a change of the password.
RevokeAll(h) ==
  /\ device[h].step \in {"revokeAll", "changed"}
  /\ token' = [t \in Tokens |-> IF token[t] = "live" THEN "revoked" ELSE token[t]]
  /\ IF device[h].step = "changed" THEN device' = [device EXCEPT ![h].step = "token"]
                                   ELSE DeviceEnds(h)
  /\ UNCHANGED <<admin, signIns, forked>>

-----------------------------------------------------------------------------
(* POST /refresh, POST /logout                                             *)

\* A token that was used before ends all sessions (the handler throws if the
\* account is gone); an expired one nothing; one without an account itself.
Refresh(h, t) ==
  /\ \/ token[t] = "revoked" /\ admin /\ DeviceStarts(h, "revokeAll", t)
     \/ token[t] = "live" /\ DeviceStarts(h, IF admin THEN "rotate" ELSE "retire", t)
  /\ UNCHANGED <<admin, token, signIns, forked>>

CreateSuccessor(h, t) ==
  /\ device[h].step = "rotate"
  /\ token[t] = "none"
  /\ token' = [token EXCEPT ![t] = "live"]
  /\ device' = [device EXCEPT ![h].step = "retire", ![h].rotated = TRUE]
  /\ UNCHANGED <<admin, signIns, forked>>

\* Mutant: the old token is left as it is.
KeepToken(h) ==
  /\ device[h].step = "retire"
  /\ DeviceEnds(h)
  /\ UNCHANGED <<admin, token, signIns, forked>>

\* revoke(): a save of the document as it was read.
RetireToken(h) ==
  LET old == device[h].old IN
  /\ device[h].step = "retire"
  /\ token' = [token EXCEPT ![old] = IF @ = "live" THEN "revoked" ELSE @]
  /\ forked' = (forked \/ (device[h].rotated /\ token[old] # "live"))
  /\ DeviceEnds(h)
  /\ UNCHANGED <<admin, signIns>>

Logout(h, t) ==
  /\ token[t] = "live"
  /\ DeviceStarts(h, "retire", t)
  /\ UNCHANGED <<admin, token, signIns, forked>>

-----------------------------------------------------------------------------

\* The TTL index, or expiresAt.
TokenExpires(t) ==
  /\ token[t] = "live"
  /\ token' = [token EXCEPT ![t] = "expired"]
  /\ UNCHANGED <<admin, device, signIns, forked>>

\* DELETE /:adminId leaves the tokens.
RemoveAdmin ==
  /\ admin
  /\ admin' = FALSE
  /\ UNCHANGED <<token, device, signIns, forked>>

\* The server dies, or an await throws.
DeviceFails(h) ==
  /\ device[h].step # "idle"
  /\ forked' = (forked \/ device[h].rotated)
  /\ DeviceEnds(h)
  /\ UNCHANGED <<admin, token, signIns>>

TokenNext ==
  \/ RemoveAdmin
  \/ \E t \in Tokens : TokenExpires(t)
  \/ \E h \in Devices :
       \/ SignedIn(h) \/ RevokeAll(h) \/ RetireToken(h) \/ DeviceFails(h)
       \/ \E t \in Tokens :
            SendToken(h, t) \/ Refresh(h, t) \/ CreateSuccessor(h, t) \/ Logout(h, t)

TokenSpec == TokenInit /\ [][TokenNext]_tokenVars

-----------------------------------------------------------------------------
(* Properties                                                              *)

\* Refreshing does not multiply sessions: there are never more live refresh
\* tokens than sign-ins, and those whose predecessor is about to be revoked,
\* unless a token was refreshed by two requests at once or a refresh broke off.
SessionsAreSignIns ==
  ~forked =>
    Cardinality({t \in Tokens : token[t] = "live"})
      <= signIns + Cardinality({h \in Devices : device[h].rotated})
=============================================================================
