----------------------- MODULE MCNotificationDispatch -----------------------
(* NotificationDispatch on small instances.                                *)
EXTENDS NotificationDispatch
\* All messages are for one user and of one template.
OneRecipient == {Messages}
=============================================================================
