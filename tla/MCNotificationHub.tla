------------------------- MODULE MCNotificationHub -------------------------
(* Small instances of the notification process for TLC.                     *)
EXTENDS NotificationHub

(* Notifications.md: "timeout > 0: expires after timeout ms from receive    *)
(* time".  A countdown that has run out does not stay on the screen.        *)
CountdownExpires == []<>(Expired = {})
=============================================================================
