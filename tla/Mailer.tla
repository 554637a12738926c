-------------------------------- MODULE Mailer --------------------------------
(***************************************************************************)
(* utils/mailer/mailer.go: New picks the provider from the configuration,  *)
(* SendEmail turns the provider's answer into nil or an error.  Addresses  *)
(* and template data were checked by the caller; the providers are         *)
(* external.                                                               *)
(***************************************************************************)

CONSTANT MailerConfig  \* MAILER_PROVIDER (trimmed, lower case), and which
                       \* of the other settings are present and valid

NewResend ==
    IF {"fromAddress", "fromName", "resendKey"} \subseteq MailerConfig.valid
    THEN "resend" ELSE "error"

NewMailtrap ==
    IF {"fromAddress", "fromName", "mailtrapToken", "inbox"} \subseteq MailerConfig.valid
    THEN "mailtrap" ELSE "error"

New == CASE MailerConfig.provider \in {"", "resend"} -> NewResend
         [] MailerConfig.provider = "mailtrap"       -> NewMailtrap
         [] OTHER                                    -> "error"

\* main of notification-service ends with log.Fatalln otherwise.
ASSUME MailerStarts == New # "error"

\* What may come back: nothing, a body that cannot be read, a status that is not
\* 2xx, a 2xx without an id, or the id of the message.  Resend promises the mail
\* with the 2xx, Mailtrap with the id; without an answer the mail may still be on
\* its way, and an answer that cannot be read may follow a mail that was taken.
Answers ==
    [reply : {"none", "garbled"}, taken : BOOLEAN] \cup [reply : {"id"}, taken : {TRUE}]
      \cup [reply : {"status"}, taken : {FALSE}] \cup [reply : {"noId"}, taken : {New = "resend"}]

SendEmailTrustsStatus(answer) ==
    IF answer.reply \in {"noId", "id"} THEN "nil" ELSE "error"

\* Every check that fails returns an error, whether the mail went out or not.
\* Only Mailtrap's answer is searched for an id.
SendEmail(answer) ==
    IF answer.reply = "id" \/ (answer.reply = "noId" /\ New = "resend") THEN "nil" ELSE "error"

=============================================================================
