---------------------------- MODULE MCGilCallbacks ----------------------------
(* Values for the constants of GilCallbacks. *)
EXTENDS GilCallbacks

WithoutCompact == {"get", "put", "flush", "close", "try_catch_up_with_primary",
                    "delete"}
All == WithoutCompact \cup {"compact_range"}
==============================================================================
