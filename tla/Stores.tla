------------------------------- MODULE Stores -------------------------------
(***************************************************************************)
(* The state of a provider: a bundle of stores by account and region, whose *)
(* attributes are created on first use (services/stores.py).  An attribute *)
(* is local to a store, shared by the regions of an account or shared by   *)
(* all accounts; its value is a dictionary.  A thread reads the attribute  *)
(* and uses the dictionary in one step: using it later, after another      *)
(* thread set the attribute again, has the effect of using it before that. *)
(***************************************************************************)
EXTENDS Naturals, Sequences, Functions

CONSTANTS Accounts, ValidRegions, AllowNonstandardRegions, AttributeScope

VARIABLES
  instances,    \* the stores that exist: <<account, region>>
  slots         \* where an attribute is kept -> its dictionary

storeVars == <<instances, slots>>

ValidAccount(account) == account \in Accounts
ValidRegion(region) == AllowNonstandardRegions \/ region \in ValidRegions

(* bundle[account][region]: the test for the store and its creation are    *)
(* under the lock the bundles share.                                       *)
Subscript(account, region) ==
  /\ ValidAccount(account) /\ ValidRegion(region)
  /\ instances' = instances \cup {<<account, region>>}
  /\ UNCHANGED slots

BadSubscript(account, region) == ~(ValidAccount(account) /\ ValidRegion(region))

(* mutant: a bundle of stores by region alone *)
RegionSlot(account, region, attribute) == <<attribute, 0, region>>

(* LocalAttribute keeps its value in the store, CrossRegionAttribute in the *)
(* dictionary of the account, CrossAccountAttribute in that of all of them. *)
Slot(account, region, attribute) ==
  CASE AttributeScope[attribute] = "local" -> <<attribute, account, region>>
    [] AttributeScope[attribute] = "cross_region" -> <<attribute, account>>
    [] OTHER -> <<attribute>>

IsSet(slot) == slot \in DOMAIN slots
Holds(slot) == slots[slot]

(* The first read of an attribute sets its default; the test before is not *)
(* under a lock.                                                           *)
Store(slot, value) ==
  /\ slots' = [s \in DOMAIN slots \cup {slot} |-> IF s = slot THEN value ELSE slots[s]]
  /\ UNCHANGED instances

SetDefault(slot) == Store(slot, <<>>)

ReadOnly == UNCHANGED storeVars

StoresInit == instances = {} /\ slots = <<>>
=============================================================================
