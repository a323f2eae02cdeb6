------------------------------- MODULE Bounds -------------------------------
(***************************************************************************)
(* The pure checks of app/bounds.py: the entity bounds H2/H3/H4/H6, the    *)
(* channel bounds H1/H5/H7/H8/H9/H10 and the approval threshold.  Each     *)
(* operator returns the FIRST reason, in the order of the code, for which  *)
(* an action is refused, or Allowed.                                       *)
(*                                                                         *)
(* The checks take the rows they read as records, so that the decision     *)
(* path and the send-time re-check of the dispatch worker use the same     *)
(* operator, as they do in the code.                                       *)
(***************************************************************************)
EXTENDS Integers, Sequences

Allowed == "allowed"

ChannelReasons ==
    {"h1_no_consent_record", "h1_not_opted_in", "h5_hard_bounced",
     "h9_dnd_registered", "h8_quiet_hours", "h7_contact_cap", "h10_min_gap"}

EntityReasons ==
    {"h3_policy_stop", "awaiting_human_review",
     "h2_revoked_mandate_blocks_charge", "h6_refund_recorded",
     "h4_open_dispute"}

\* The channels a DND registration covers; EMAIL is not one of them.
DndChannels == {"SMS", "WHATSAPP", "VOICE"}

RetryActions == {"RETRY_NOW", "RETRY_SCHEDULED"}

-----------------------------------------------------------------------------
(* _in_quiet_hours: times of day are numbers of some unit since midnight;  *)
(* a window whose start is after its end wraps midnight.                   *)
InQuietHours(t, start, end) ==
    IF start <= end THEN start <= t /\ t < end
                    ELSE t >= start \/ t < end

(* _check_channel_bounds.  contact is the customer_contactability row (the *)
(* field found is FALSE when there is none), contacts the customer's       *)
(* executed attempts of the last seven days, sinceLast the time since      *)
(* last_contacted_at, with haveLast FALSE when that is NULL.               *)
ChannelReason(channel, contact, quiet, contacts, cap, haveLast, sinceLast, minGap) ==
    IF ~contact.found THEN "h1_no_consent_record"
    ELSE IF ~contact.optedIn THEN "h1_not_opted_in"
    ELSE IF contact.hardBounced THEN "h5_hard_bounced"
    ELSE IF channel \in DndChannels /\ contact.dnd THEN "h9_dnd_registered"
    ELSE IF quiet THEN "h8_quiet_hours"
    ELSE IF contacts >= cap THEN "h7_contact_cap"
    ELSE IF haveLast /\ sinceLast < minGap THEN "h10_min_gap"
    ELSE Allowed

(* _choose_channel of recovery/batch.py: the first channel of the list     *)
(* that may be used, on the word of the same rows.  Failing all, the email *)
(* is passed on, for the bounds to say why not.                            *)
ChannelPreference == <<"EMAIL", "SMS", "WHATSAPP">>

Viable(channel, contact) ==
    /\ contact.found /\ contact.optedIn /\ ~contact.hardBounced
    /\ channel \in {"SMS", "WHATSAPP"} => ~contact.dnd

ChooseChannel(contacts) ==
    LET viable == {i \in DOMAIN ChannelPreference :
                      Viable(ChannelPreference[i], contacts[ChannelPreference[i]])}
    IN
    IF viable = {} THEN "EMAIL"
    ELSE ChannelPreference[CHOOSE i \in viable : \A j \in viable : i <= j]

(* _check_entity_bounds.  entity is the payment, subscription, checkout or *)
(* invoice row the loss is about, reduced to the facts that are read.      *)
EntityReason(action, entity) ==
    IF action = "STOP" THEN "h3_policy_stop"
    ELSE IF action = "ESCALATE_HUMAN" THEN "awaiting_human_review"
    ELSE IF entity.type = "SUBSCRIPTION" /\ action \in RetryActions /\ entity.revoked
         THEN "h2_revoked_mandate_blocks_charge"
    ELSE IF entity.type = "PAYMENT" /\ entity.refunded THEN "h6_refund_recorded"
    ELSE IF entity.type = "PAYMENT" /\ entity.disputed THEN "h4_open_dispute"
    ELSE Allowed

(* _check_policy_bounds *)
PolicyReason(value, approvalAbove) ==
    IF value >= approvalAbove THEN "held_for_approval" ELSE Allowed
=============================================================================
