------------------------------ MODULE Services ------------------------------
(***************************************************************************)
(* The services beside the office in one process: the library of study     *)
(* materials, the plugins and the reminders of the morning.  They share no *)
(* table; requests and jobs of one may run between those of another.       *)
(***************************************************************************)
EXTENDS Materials, Plugins, Reminders

serviceVars == <<materialsVars, pluginsVars, remindersVars>>

ServicesInit == MaterialsInit /\ PluginsInit /\ RemindersInit

ServicesNext ==
    \/ MaterialsNext /\ UNCHANGED <<pluginsVars, remindersVars>>
    \/ PluginsNext /\ UNCHANGED <<materialsVars, remindersVars>>
    \/ RemindersNext /\ UNCHANGED <<materialsVars, pluginsVars>>

ServicesSpec == ServicesInit /\ [][ServicesNext]_serviceVars

\* The tables of the services and their requests are well formed.
ServicesTypeOK == MaterialsTypeOK /\ PluginsTypeOK /\ RemindersTypeOK

\* The services beside the office keep their word: what the library holds was
\* stored, asked for and is being done; what the plugin pages show is what runs;
\* the right parents are reminded, once.
ServicesSound == LibrarySound /\ PluginsSound /\ RemindersSound
=============================================================================
