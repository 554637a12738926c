----------------------- MODULE MCNotificationPipeline -----------------------
(* An instance of NotificationPipeline for TLC. *)
EXTENDS NotificationPipeline

Mailtrap == [provider |-> "mailtrap", valid |-> {"fromAddress", "fromName", "mailtrapToken", "inbox"}]
=============================================================================
