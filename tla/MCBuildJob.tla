---- MODULE MCBuildJob ----
EXTENDS BuildJob
NoPrerequisite == <<>>
MCFaultSets ==
  {{"build", "foreground"}, {"new", "api", "broker", "build", "kill", "edit"},
   {"api", "build", "kill", "lost"}, {"broker", "lost"}, {"edit", "lost"}}
====
