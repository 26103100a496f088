---------------------------- MODULE DataTriggers ----------------------------
(***************************************************************************)
(* The data triggers of the system contracts (dpp/src/data_trigger), as    *)
(* functions of a transition, the owner of its batch and the documents     *)
(* that are stored when the batch is validated.                            *)
(*                                                                         *)
(* A trigger ends in a result, which lists the conditions that are not     *)
(* met, in an error, or in a panic.                                        *)
(*                                                                         *)
(* Names of domains are sequences of labels, the lowest first.  The hash   *)
(* of a salt and a label is the pair of them.  That the normalized label   *)
(* is the label in lower case is the field "normalized"; the limit of 253  *)
(* characters is above that of the schema and never exceeded.              *)
(***************************************************************************)
EXTENDS Integers, Sequences, SequencesExt, FiniteSets, FiniteSetsExt

CONSTANTS
  DpnsOwner, FeatureFlagsOwner,  \* owners of system contracts
  Masternodes,                   \* identities in the list of masternodes
  Identities,                    \* identities that exist
  MaxRewardShares,               \* 16: reward share documents of an owner
  MaxPercentage                  \* 10000

ASSUME RewardShareAssumption == MaxRewardShares \in Nat /\ MaxPercentage \in Nat

Result(errors) == [errors |-> errors, failed |-> FALSE, panics |-> FALSE]
Failure == [errors |-> {}, failed |-> TRUE, panics |-> FALSE]
Panic == [errors |-> {}, failed |-> FALSE, panics |-> TRUE]

Unless(condition, error) == IF condition THEN {} ELSE {error}

-----------------------------------------------------------------------------
\* The registry.  The rejection of replaced preorders and that of deleted
\* contact requests are missing: another entry stands in it twice.  The
\* entries of the reward share contract have the document type and the kind
\* of trigger of other contracts.
Trigger(contract, type, action, kind, top) ==
  [contract |-> contract, type |-> type, action |-> action, kind |-> kind, top |-> top]

NoIdentity == "no identity"

data_triggers == <<
  Trigger("dpns", "domain", "create", "CreateDomain", DpnsOwner),
  Trigger("dpns", "domain", "replace", "Reject", NoIdentity),
  Trigger("dpns", "domain", "delete", "Reject", NoIdentity),
  Trigger("dpns", "preorder", "delete", "Reject", NoIdentity),
  Trigger("dpns", "preorder", "delete", "Reject", NoIdentity),
  Trigger("dashpay", "contactRequest", "create", "ContactRequest", NoIdentity),
  Trigger("dashpay", "contactRequest", "replace", "Reject", NoIdentity),
  Trigger("dashpay", "contactRequest", "replace", "Reject", NoIdentity),
  Trigger("featureFlags", "updateConsensusParams", "create", "FeatureFlag", FeatureFlagsOwner),
  Trigger("featureFlags", "updateConsensusParams", "replace", "Reject", NoIdentity),
  Trigger("featureFlags", "updateConsensusParams", "delete", "Reject", NoIdentity),
  Trigger("rewardShares", "updateConsensusParams", "create", "ContactRequest", NoIdentity),
  Trigger("rewardShares", "updateConsensusParams", "replace", "ContactRequest", NoIdentity)>>

is_matching_trigger_for_data(trigger, t) ==
  trigger.contract = t.contract /\ trigger.type = t.type /\ trigger.action = t.action

get_data_triggers(t) ==
  {trigger \in ToSet(data_triggers) : is_matching_trigger_for_data(trigger, t)}

-----------------------------------------------------------------------------
(* The triggers.  stored is a set of documents, block the latest block.    *)

\* mutant: a missing parent ends in a condition that is not met.
create_domain_data_trigger_NoParent(t, owner, top, stored) ==
  IF t.action # "create" \/ top = NoIdentity THEN Failure
  ELSE Result(Unless(owner = top, "top level domain"))

\* The parent is read from the documents found even when there are none.
create_domain_data_trigger(t, owner, top, stored) ==
  LET data == t.data
      domains == {d \in stored : d.id.contract = t.contract /\ d.type = t.type}
      parents == {d \in domains : d.data.label = Head(data.parent) /\ d.data.parent = Tail(data.parent)}
      preorders == {d \in stored : /\ d.id.contract = t.contract /\ d.type = "preorder"
                                 /\ d.data.hash = <<data.salt, data.label>>}
      common == Unless(data.normalized, "normalized label")
                \cup Unless(data.records \subseteq {owner}, "records of another identity")
                \cup Unless(preorders # {}, "no preorder") IN
  IF t.action # "create" \/ top = NoIdentity THEN Failure
  ELSE IF data.parent = <<>> THEN
         Result(common \cup Unless(owner = top, "top level domain"))
  ELSE IF parents = {} THEN Panic
  ELSE LET parent == CHOOSE d \in parents : TRUE IN
       Result(common \cup Unless(~ data.allow, "subdomains of a subdomain")
              \cup Unless(parent.data.allow \/ owner = parent.owner, "owner of the parent"))

BLOCKS_SIZE_WINDOW == 8

create_contact_request_data_trigger(t, block) ==
  IF t.action # "create" THEN Failure
  ELSE Result(Unless(/\ t.data.coreHeight >= block.coreHeight - BLOCKS_SIZE_WINDOW
                     /\ t.data.coreHeight <= block.coreHeight + BLOCKS_SIZE_WINDOW,
                     "core height"))

create_feature_flag_data_trigger(t, owner, top, block) ==
  IF t.action # "create" \/ top = NoIdentity THEN Failure
  ELSE IF t.data.enableAt < block.height THEN Result({"height has passed"})
  ELSE Result(Unless(owner = top, "owner of the feature flags"))

\* The documents of the owner are those stored, without the other
\* transitions of the batch.
create_masternode_reward_shares_data_trigger(t, owner, stored) ==
  LET shares == {d \in stored : d.id.contract = t.contract /\ d.type = t.type /\ d.owner = owner}
      total == t.data.percentage + MapThenSumSet(LAMBDA d : d.data.percentage, shares)
      common == Unless(owner \in Masternodes, "not a masternode")
                \cup Unless(t.data.payTo \in Identities, "no such identity") IN
  IF t.action # "create" THEN Failure
  ELSE IF Cardinality(shares) >= MaxRewardShares THEN Result(common \cup {"too many shares"})
  ELSE Result(common \cup Unless(total <= MaxPercentage, "percentage"))

reject_data_trigger == Result({"not allowed"})

execute_trigger(trigger, t, owner, stored, block) ==
  CASE trigger.kind = "CreateDomain" -> create_domain_data_trigger(t, owner, trigger.top, stored)
    [] trigger.kind = "ContactRequest" -> create_contact_request_data_trigger(t, block)
    [] trigger.kind = "FeatureFlag" -> create_feature_flag_data_trigger(t, owner, trigger.top, block)
    [] trigger.kind = "RewardShare" -> create_masternode_reward_shares_data_trigger(t, owner, stored)
    [] trigger.kind = "Reject" -> reject_data_trigger

\* Only an error of the trigger becomes an error of the validation; the
\* conditions in its result are dropped with it.
execute(trigger, t, owner, stored, block) ==
  LET result == execute_trigger(trigger, t, owner, stored, block) IN
  [accepted |-> ~ result.failed /\ ~ result.panics, unmet |-> result.errors]

execute_data_triggers(ts, owner, stored, block) ==
  \A t \in ToSet(ts) : \A trigger \in get_data_triggers(t) :
    execute(trigger, t, owner, stored, block).accepted
=============================================================================
