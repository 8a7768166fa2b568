------------------------------- MODULE Plugins -------------------------------
(***************************************************************************)
(* Plugins: the registry in the database, the instances a process has      *)
(* loaded, their settings (plugins/services/plugin_service.py,             *)
(* repositories/plugin_repository.py).  A request reads; flushes, which    *)
(* holds the row it changed until the end, and touches the process memory; *)
(* and commits or is rolled back.  The memory is not rolled back, and a    *)
(* restart empties it.                                                     *)
(*                                                                         *)
(* Which plugin needs which is written outside the service.  Versions,     *)
(* entry points, the values of settings and the handlers are left out: an  *)
(* entry point that cannot be imported leaves None under the id, which     *)
(* counts as loaded.                                                       *)
(***************************************************************************)
EXTENDS Integers, FiniteSets

CONSTANTS PluginName, Setting,
          Needs,      \* plugin_dependencies: <<plugin, what it depends on>>
          Installer   \* the requests that may overlap

ASSUME PluginsAssumption == Needs \subseteq PluginName \X PluginName

VARIABLES registry,   \* plugins: the row of each name; names stay taken for good
          settings,   \* plugin_config: how many live rows a plugin has for a key
          instances,  \* _loaded_plugins of the process
          order,      \* the request under way
          untidy,     \* history: plugins a restart, a rollback or another request disturbed
          undermined, \* history: plugins that lost one they need
          doubled     \* history: settings two requests looked for at a time

pluginsVars == <<registry, settings, instances, order, untidy, undermined, doubled>>

NoPlugin == [row |-> "none", enabled |-> FALSE]
NoOrder == [kind |-> "none"]
Kinds == {"enable", "disable", "delete"}
Installed(p) == registry[p].row = "live"
On(p) == Installed(p) /\ registry[p].enabled
Needed(p) == {q \in PluginName : <<p, q>> \in Needs}

PluginsInit ==
    /\ registry = [p \in PluginName |-> NoPlugin]
    /\ settings = [x \in PluginName \X Setting |-> 0]
    /\ instances = {} /\ order = [o \in Installer |-> NoOrder]
    /\ untidy = {} /\ undermined = {} /\ doubled = {}

\* register_plugin: "Plugin with this name already exists" is said of a live one;
\* of a deleted one the unique column refuses the row.
Register(p) ==
    /\ registry[p] = NoPlugin
    /\ registry' = [registry EXCEPT ![p].row = "live"]
    /\ UNCHANGED <<settings, instances, order, untidy, undermined, doubled>>

\* What a request makes of the row it read.
Ordered(row, kind) ==
    CASE kind = "enable"  -> [row EXCEPT !.enabled = TRUE]
      [] kind = "disable" -> [row EXCEPT !.enabled = FALSE]
      [] kind = "delete"  -> [row EXCEPT !.row = "deleted"]

\* validate_dependencies
DependenciesMet(p) == \A q \in Needed(p) : On(q)

BeginOrder(o, p, kind) ==
    /\ order[o] = NoOrder /\ Installed(p)
    /\ kind = "enable" => DependenciesMet(p)
    /\ order' = [order EXCEPT ![o] = [kind |-> kind, plugin |-> p, read |-> registry[p], flushed |-> FALSE]]
    /\ UNCHANGED <<registry, settings, instances, untidy, undermined, doubled>>

Changes(v) == Ordered(v.read, v.kind) # v.read
OfPlugin(p) == {o \in Installer : order[o].kind \in Kinds /\ order[o].plugin = p}

\* The UPDATE waits for a row somebody holds; without a change there is none to
\* wait for.  Then the plugin is loaded or unloaded.
Flush(o) ==
    /\ order[o].kind \in Kinds /\ ~ order[o].flushed
    /\ LET v == order[o]
       IN  /\ Changes(v) =>
                 \A d \in OfPlugin(v.plugin) \ {o} : ~ (order[d].flushed /\ Changes(order[d]))
           /\ instances' = IF v.kind = "enable" THEN instances \cup {v.plugin} ELSE instances \ {v.plugin}
           /\ order' = [order EXCEPT ![o].flushed = TRUE]
    /\ UNCHANGED <<registry, settings, untidy, undermined, doubled>>

\* Who needs a plugin, and has it now or is about to.
Relying(p) ==
    {q \in PluginName : p \in Needed(q) /\ (On(q) \/ \E o \in OfPlugin(q) : order[o].kind = "enable")}

\* Of the columns only those that differ from what was read are written.
Overwritten(row, v) ==
    LET new == Ordered(v.read, v.kind)
    IN  [c \in DOMAIN row |-> IF new[c] # v.read[c] THEN new[c] ELSE row[c]]

CommitOrder(o) ==
    /\ order[o].kind \in Kinds /\ order[o].flushed
    /\ LET v == order[o]
       IN  /\ registry' = [registry EXCEPT ![v.plugin] = Overwritten(@, v)]
           /\ undermined' = IF v.kind # "enable" THEN undermined \cup Relying(v.plugin) ELSE undermined
           /\ untidy' = IF OfPlugin(v.plugin) # {o} THEN untidy \cup {v.plugin} ELSE untidy
    /\ order' = [order EXCEPT ![o] = NoOrder]
    /\ UNCHANGED <<settings, instances, doubled>>

\* The audit row or the commit fails: the database forgets, the process does not.
RollBack(o) ==
    /\ order[o] # NoOrder
    /\ untidy' = IF order[o].kind \in Kinds /\ order[o].flushed THEN untidy \cup {order[o].plugin} ELSE untidy
    /\ order' = [order EXCEPT ![o] = NoOrder]
    /\ UNCHANGED <<registry, settings, instances, undermined, doubled>>

\* Nothing loads the enabled plugins when the process comes back.
Restart ==
    /\ instances' = {} /\ order' = [o \in Installer |-> NoOrder]
    /\ untidy' = untidy \cup {p \in PluginName : On(p)}
    /\ UNCHANGED <<registry, settings, undermined, doubled>>

-----------------------------------------------------------------------------
(* Settings.                                                               *)

\* set_plugin_config: a row that is there gets the value; a missing one is
\* inserted, and nothing but the lookup keeps a second out.  Two rows are more
\* than the lookup takes.
Asking(x) == {o \in Installer : order[o].kind = "setting" /\ order[o].of = x}

BeginSetting(o, p, k) ==
    /\ order[o] = NoOrder /\ Installed(p) /\ settings[<<p, k>>] = 0
    /\ order' = [order EXCEPT ![o] = [kind |-> "setting", of |-> <<p, k>>]]
    /\ UNCHANGED <<registry, settings, instances, untidy, undermined, doubled>>

CommitSetting(o) ==
    /\ order[o].kind = "setting"
    /\ LET x == order[o].of
       IN  /\ settings' = [settings EXCEPT ![x] = @ + 1]
           /\ doubled' = IF Asking(x) # {o} THEN doubled \cup {x} ELSE doubled
    /\ order' = [order EXCEPT ![o] = NoOrder]
    /\ UNCHANGED <<registry, instances, untidy, undermined>>

PluginsNext ==
    \/ \E p \in PluginName : Register(p)
    \/ \E o \in Installer :
          \/ \E p \in PluginName : (\E kind \in Kinds : BeginOrder(o, p, kind)) \/ \E k \in Setting : BeginSetting(o, p, k)
          \/ Flush(o) \/ CommitOrder(o) \/ RollBack(o) \/ CommitSetting(o)
    \/ Restart

PluginsSpec == PluginsInit /\ [][PluginsNext]_pluginsVars

-----------------------------------------------------------------------------
(* Correctness.                                                            *)

PluginRow == [row : {"none", "live", "deleted"}, enabled : BOOLEAN]

\* The registry and the requests are well formed.
PluginsTypeOK ==
    /\ registry \in [PluginName -> PluginRow]
    /\ settings \in [PluginName \X Setting -> Nat]
    /\ instances \subseteq PluginName
    /\ order \in [Installer -> {NoOrder}
           \cup [kind : Kinds, plugin : PluginName, read : PluginRow, flushed : BOOLEAN]
           \cup [kind : {"setting"}, of : PluginName \X Setting]]
    /\ untidy \subseteq PluginName /\ undermined \subseteq PluginName
    /\ doubled \subseteq PluginName \X Setting

\* get_plugin_status: what the process has loaded is what the table calls
\* enabled, once no request is under way on a plugin, unless a restart, a
\* rollback or a second request on it came between.
LoadedAsEnabled ==
    \A p \in PluginName \ untidy : OfPlugin(p) = {} => (p \in instances <=> On(p))

\* An enabled plugin has what it depends on, unless that was disabled or deleted
\* under it, which no request looks for.
DependenciesHold == \A p \in PluginName \ undermined : On(p) => \A q \in Needed(p) : On(q)

\* A setting has one row, and can be read, unless two requests looked for it at a
\* time.
SettingsReadable == \A x \in PluginName \X Setting : settings[x] <= 1 \/ x \in doubled

\* What the plugins' pages show is what runs.
PluginsSound == LoadedAsEnabled /\ DependenciesHold /\ SettingsReadable
=============================================================================
