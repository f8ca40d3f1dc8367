---------------------------- MODULE MCCloudUpload ----------------------------
(* CloudUpload in a deployment that permits uploads and in those that do not. *)
EXTENDS CloudUpload

MCSetups ==
    {[webhook |-> "public", token |-> "right"], [webhook |-> "public", token |-> "wrong"]}
        \cup [webhook: {"unset", "malformed", "private"}, token: {"not needed"}]
=============================================================================
