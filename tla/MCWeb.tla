------------------------------- MODULE MCWeb -------------------------------
(* What the master does for its pages besides instances and networks, for  *)
(* one run: a behaviour is of the console, of the log forwarders of an     *)
(* agent, of the accounts, of the settings or of the file manager.         *)
EXTENDS Console, LogForwarder, Accounts, Settings, FileManager

VARIABLE part

all == <<vars, forwarderVars, accountsVars, settingsVars, filesVars, part>>

MCInit ==
    /\ Init /\ ForwarderInit /\ AccountsInit /\ SettingsInit /\ FilesInit
    /\ part \in {"console", "forwarders", "accounts", "settings", "files"}

ConsoleStep == part = "console" /\ Next /\ UNCHANGED <<forwarderVars, accountsVars, settingsVars, filesVars, part>>
ForwarderStep == part = "forwarders" /\ ForwarderNext /\ UNCHANGED <<vars, accountsVars, settingsVars, filesVars, part>>
AccountsStep == part = "accounts" /\ AccountsNext /\ UNCHANGED <<vars, forwarderVars, settingsVars, filesVars, part>>
SettingsStep == part = "settings" /\ SettingsNext /\ UNCHANGED <<vars, forwarderVars, accountsVars, filesVars, part>>
FilesStep == part = "files" /\ FilesNext /\ UNCHANGED <<vars, forwarderVars, accountsVars, settingsVars, part>>

MCNext == ConsoleStep \/ ForwarderStep \/ AccountsStep \/ SettingsStep \/ FilesStep

MCSpec == MCInit /\ [][MCNext]_all
=============================================================================
