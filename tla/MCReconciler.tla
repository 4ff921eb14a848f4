---- MODULE MCReconciler ----
EXTENDS Reconciler
OnePrerequisite == <<"ServiceAccount">>
TwoPrerequisites == <<"ServiceAccount", "Role">>
AllPrerequisites == <<"ServiceAccount", "Role", "RoleBinding">>
====
