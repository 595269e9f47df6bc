----------------------------- MODULE JwtPolicy -----------------------------
(***************************************************************************)
(* The rules of src/shared/jwt.ts and src/shared/keycloak.ts that turn the *)
(* claims of a token into what its bearer may do.  Claims are a record     *)
(*   [issuer, audience, exp, scope, roles, sub, key]                       *)
(* with audience, scope and roles as sets, exp a time or NoExp, and key    *)
(* the key the token was signed with.                                      *)
(***************************************************************************)
EXTENDS Integers

CONSTANT NoExp   \* there is no exp claim

SCOPE_TOOLS == "mcp:tools"
SCOPE_ADMIN == "mcp:admin"
ADMIN_ROLE == "mcp-admin"

TokenScopes(claims) == claims.scope

(* The scopes the client was granted, mcp:admin only with the user's role. *)
KeycloakEffectiveScopes(claims) ==
  {s \in TokenScopes(claims) : s # SCOPE_ADMIN \/ ADMIN_ROLE \in claims.roles}

(* The requireBearerAuth() of the SDK looks at expiresAt after the         *)
(* verifier accepted.                                                      *)
BearerAccepts(expiresAt, now) == expiresAt # NoExp /\ expiresAt >= now

(* jwtVerify() of jose, for a verifier [issuer, audience, tolerance] whose *)
(* keys are known.                                                         *)
JwtVerified(claims, keys, verifier, now) ==
  /\ claims.key \in keys
  /\ claims.issuer = verifier.issuer
  /\ claims.audience \cap verifier.audience # {}
  /\ claims.exp = NoExp \/ now < claims.exp + verifier.tolerance

(* verifyAccessToken() of createJwtVerifier(), behind requireBearerAuth(): *)
(* 500 when the keys cannot be had, 401 for a token that is not good, 403  *)
(* for one that lacks a scope.                                             *)
JwtVerdict(claims, keys, keysKnown, verifier, effective, now) ==
  IF ~keysKnown THEN "error"
  ELSE IF ~JwtVerified(claims, keys, verifier, now) \/ claims.exp = NoExp THEN "invalid"
  ELSE IF ~(verifier.requiredScopes \subseteq effective) THEN "forbidden"
  ELSE IF ~BearerAccepts(claims.exp, now) THEN "invalid"
  ELSE "granted"
=============================================================================
