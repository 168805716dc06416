--------------------------- MODULE RequestIdentity ---------------------------
(***************************************************************************)
(* Who sends a request and where it goes: the account read from the access *)
(* key and the region read from the credential scope                       *)
(* (aws/accounts.py, utils/aws/request_context.py, handlers/auth.py,       *)
(* handlers/region.py).  An access key is its kind, the account its first  *)
(* eight characters encode (halved, the thirteenth character is the odd    *)
(* bit) and its length.                                                    *)
(***************************************************************************)
EXTENDS Integers

CONSTANTS AvailableRegions, Partitions, LastAccount, ParityAccessKeys

DefaultAccount == 0
DefaultRegion == "us-east-1"

NoAuth == [scheme |-> "none"]
NoKey == [kind |-> "none"]

(* The account encoded in a key: base32 errors and values out of range give *)
(* the default account.                                                    *)
ExtractAccount(key) ==
  LET account == 2 * key.half + (IF key.odd THEN 1 ELSE 0)
  IN  IF key.garbled \/ account < 0 \/ account > LastAccount THEN DefaultAccount ELSE account

DecodedPrefixes == IF ParityAccessKeys THEN {"ASIA", "AKIA"} ELSE {"LSIA", "LKIA"}

(* Any key that starts with twelve digits is an account id. *)
AccountOfKey(key) ==
  CASE key.kind = "digits" -> key.account
    [] key.kind \in DecodedPrefixes /\ key.long -> ExtractAccount(key)
    [] OTHER -> DefaultAccount

(* Signature version 4 carries a key and a region, version 2 only a key. *)
AccessKey(auth) == IF auth.scheme \in {"sigv4", "sigv2"} THEN auth.key ELSE NoKey
RegionOfAuth(auth) == IF auth.scheme = "sigv4" THEN auth.region ELSE DefaultRegion

AccountOf(auth) == IF AccessKey(auth) = NoKey THEN DefaultAccount ELSE AccountOfKey(auth.key)

(* Any partition whose pattern the region matches, or aws. *)
PartitionOf(region) == IF region \in DOMAIN Partitions THEN Partitions[region] ELSE "aws"

MockAuth(service) ==
  [scheme |-> "sigv4", key |-> [kind |-> "injected"], region |-> DefaultRegion, service |-> service]

RewriteAuth(auth, region) ==
  IF auth.scheme = "sigv4" THEN [auth EXCEPT !.region = region] ELSE auth

-----------------------------------------------------------------------------
(* The handlers, on a context x that holds the request's auth. *)
InjectAuth(x) ==
  IF x.service = "" \/ x.auth # NoAuth THEN x ELSE [x EXCEPT !.auth = MockAuth(x.service)]

AddRegion(x) ==
  LET region == RegionOfAuth(x.auth)
  IN  [x EXCEPT !.region = region, !.partition = PartitionOf(region)]

RewriteRegion(x) ==
  IF x.region \in AvailableRegions THEN x
  ELSE [x EXCEPT !.region = DefaultRegion, !.partition = "aws",
                 !.auth = RewriteAuth(x.auth, DefaultRegion)]

AddAccount(x) == [x EXCEPT !.account = AccountOf(x.auth)]
=============================================================================
