------------------------------ MODULE MCUsage ------------------------------
(* A calendar of two months, two tiers, and a custom plan by the day.       *)
EXTENDS Usage

MCPresets == [free |-> [soft |-> 1, hard |-> 2, period |-> "month"],
              enterprise |-> [soft |-> 0, hard |-> 0, period |-> "month"]]

MCBodies == {[plan |-> "enterprise", hard |-> None, period |-> None],
             [plan |-> "custom", hard |-> 3, period |-> "day"]}

=============================================================================
