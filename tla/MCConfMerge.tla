----------------------------- MODULE MCConfMerge -----------------------------
EXTENDS ConfMerge

\* Values within and beyond the bounds; files that can be read and files that
\* cannot.
MCValues ==
    [d \in Directives |->
        CASE d = "challenge_timeout" -> {2, 9999}
          [] d = "session_timeout" -> {2592001}
          [] d = "failure_limit" -> {0, 3}
          [] d = "failure_window" -> {30, 9999}
          [] d = "failure_ban_time" -> {10, 99999}
          [] d = "gpg_timeout" -> {500}
          [] d = "nonce_storage" -> {REDIS}
          [] d = "nonce_addr" -> {"redis"}
          [] d = "nonce_password" -> {"inline", "overlong"}
          [] d = "nonce_password_file" -> {"pw", "lost"}
          [] d = "keyring" -> {"relative"}
          [] d = "secret_file" -> {"new", "blank"}
          [] d = "secret_previous_file" -> {"old", "huge"}
          [] OTHER -> {}]

File(opens, size, text) == [opens |-> opens, size |-> size, text |-> text]

MCDisk ==
    [f \in {"new", "old", "pw", "lost", "blank", "huge"} |->
        CASE f = "new" -> File(TRUE, 33, "s2")
          [] f = "old" -> File(TRUE, 33, "s1")
          [] f = "pw" -> File(TRUE, 65536, "password")
          [] f = "lost" -> File(FALSE, 33, "s0")
          [] f = "blank" -> File(TRUE, 2, "")
          [] f = "huge" -> File(TRUE, 65537, "s3")]

\* On everywhere, for a server, for a location only, and off again inside.
MCEnables ==
    {[b \in Blocks |-> IF b = "http" THEN 1 ELSE -1],
     [b \in Blocks |-> IF b = "server" THEN 1 ELSE -1],
     [b \in Blocks |-> IF b = "location" THEN 1 ELSE -1],
     [b \in Blocks |-> IF b = "location" THEN 0 ELSE 1]}
=============================================================================
