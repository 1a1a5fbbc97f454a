------------------------------ MODULE Timezone ------------------------------
(***************************************************************************)
(* The time zone of the system: /etc/localtime is a symbolic link into     *)
(* /usr/share/zoneinfo (core/api/system/{load,store,change}.c).            *)
(***************************************************************************)
CONSTANTS Zones,      \* zone names a client can configure
          Installed,  \* zone names that have a file
          NoName,     \* the empty name: its path is the directory itself
          NoFile,     \* /etc/localtime does not exist
          Foreign     \* it exists and is not a link into the directory

ASSUME TimezoneAssumption ==
    /\ NoName \in Installed /\ Installed \subseteq Zones
    /\ NoFile \notin Zones /\ Foreign \notin Zones /\ NoFile # Foreign

VARIABLE localtime

\* system_load_timezone_name fails when readlink() does, and on a link to
\* some other directory.
Unreadable == localtime \in {NoFile, Foreign}

\* access() of /etc/localtime follows the link: one that leads nowhere is
\* not seen.
LocaltimeSeen == localtime \in Installed \cup {Foreign}

\* The first half of system_store_timezone_name: the file of the zone must
\* exist, and /etc/localtime is removed if it is seen.
UnlinkLocaltime(z) ==
    /\ z \in Installed
    /\ localtime' = IF LocaltimeSeen THEN NoFile ELSE localtime

\* The second half: symlink() does not replace what exists.
Symlink(z) ==
    /\ localtime = NoFile
    /\ localtime' = z
=============================================================================
