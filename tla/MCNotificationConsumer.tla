----------------------- MODULE MCNotificationConsumer -----------------------
(* Instances of NotificationConsumer for TLC. *)
EXTENDS NotificationConsumer, TLC

Mailtrap == [provider |-> "mailtrap", valid |-> {"fromAddress", "fromName", "mailtrapToken", "inbox"}]
Resend   == [provider |-> "", valid |-> {"fromAddress", "fromName", "resendKey"}]

AllFaults == {"mail", "fatal", "commit", "session", "crash"}
=============================================================================
