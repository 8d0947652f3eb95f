--------------------------- MODULE PluginManager ---------------------------
(***************************************************************************)
(* The plugins of ann-plugins.c and the inputs and engines made from them  *)
(* (io-input.c, ai-engine.c): files are loaded one by one or by folder,    *)
(* found by their type, removed, and all freed by cleanup, which leaves    *)
(* max_size as it was.  A handle is opened with RTLD_NODELETE: closing it  *)
(* does not unmap the code that inputs and engines go on calling.          *)
(***************************************************************************)
EXTENDS Naturals, Sequences, SequencesExt

CONSTANTS Folder,    \* the files of the plugins folder, in alphabetical order
          TypeOf,    \* what ann_plugin_get_type of each file returns, "" if it is no plugin
          WithInit,  \* files that export ann_plugin_init
          Chunk,     \* the array grows by this many slots (256)
          MaxOpens   \* bound: dlopen calls

VARIABLES
  plugins,    \* helpler->plugins, as a sequence
  allocated,  \* helpler->plugins is not NULL
  maxSize,    \* helpler->max_size
  loading,    \* the files of the folder that are still to be added
  handles,    \* open handles of each file
  mapped,     \* files whose code is in memory
  users,      \* inputs and engines: the file whose functions they call
  opens,
  crashed     \* an assertion failed or NULL was written through

vars == <<plugins, allocated, maxSize, loading, handles, mapped, users, opens, crashed>>
Files == Range(Folder)

\* s_plugins, before ann_plugins_helpler_init
Init ==
  /\ plugins = <<>> /\ allocated = FALSE /\ maxSize = 0 /\ loading = <<>>
  /\ handles = [f \in Files |-> 0] /\ mapped = {} /\ users = {}
  /\ opens = 0 /\ crashed = FALSE

-----------------------------------------------------------------------------
RoundUp(size) == ((size + Chunk - 1) \div Chunk) * Chunk

\* ann_plugins_helpler_resize
Resize(size) ==
  LET wanted == IF size = 0 THEN Chunk ELSE size IN
  IF wanted <= maxSize
  THEN UNCHANGED <<maxSize, allocated>>
  ELSE maxSize' = RoundUp(wanted) /\ allocated' = TRUE

\* ann_plugin_new: what is no plugin is closed again.
New(f) ==
  /\ opens' = opens + 1
  /\ mapped' = mapped \cup {f}
  /\ handles' = IF TypeOf[f] = "" THEN handles ELSE [handles EXCEPT ![f] = @ + 1]

\* ann_plugins_helpler_add: once per file, and only what is a plugin.
Add(f) ==
  IF f \in Range(plugins)
  THEN UNCHANGED <<plugins, allocated, maxSize, handles, mapped, opens, crashed>>
  ELSE /\ Resize(Len(plugins) + 1)
       /\ New(f)
       /\ plugins' = IF TypeOf[f] # "" /\ allocated' THEN Append(plugins, f) ELSE plugins
       /\ crashed' = (TypeOf[f] # "" /\ ~allocated')

\* ann_plugins_helpler_load of a file
LoadFile(f) ==
  /\ opens < MaxOpens
  /\ Add(f)
  /\ UNCHANGED <<users, loading>>

\* and of a folder, one file after the other
LoadFolder ==
  /\ opens + Len(Folder) <= MaxOpens
  /\ loading' = Folder
  /\ UNCHANGED <<plugins, allocated, maxSize, handles, mapped, users, opens, crashed>>

LoadNext ==
  /\ loading # <<>>
  /\ Add(Head(loading))
  /\ loading' = Tail(loading)
  /\ UNCHANGED users

\* ann_plugins_helpler_init, the first time or once more
Start ==
  /\ opens + Len(Folder) <= MaxOpens
  /\ Resize(0)
  /\ loading' = Folder
  /\ UNCHANGED <<plugins, handles, mapped, users, opens, crashed>>

RemovedLast(f) == Front(plugins)

\* The last plugin takes the place of the one that is removed.
Removed(f) ==
  LET i == CHOOSE i \in DOMAIN plugins : plugins[i] = f IN
  Front([plugins EXCEPT ![i] = Last(plugins)])

\* ann_plugins_helpler_remove, with ann_plugin_free
Unload(f) ==
  /\ f \in Range(plugins)
  /\ plugins' = Removed(f)
  /\ handles' = [handles EXCEPT ![f] = @ - 1]
  /\ UNCHANGED <<allocated, maxSize, loading, mapped, users, opens, crashed>>

\* ann_plugins_helpler_cleanup
Cleanup ==
  /\ allocated
  /\ plugins' = <<>> /\ allocated' = FALSE
  /\ handles' = [f \in Files |-> IF f \in Range(plugins) THEN handles[f] - 1 ELSE handles[f]]
  /\ UNCHANGED <<maxSize, loading, mapped, users, opens, crashed>>

\* ann_plugins_helpler_find: the first of its type
Find(type) == plugins[CHOOSE i \in DOMAIN plugins :
  /\ TypeOf[plugins[i]] = type
  /\ \A j \in 1 .. i - 1 : TypeOf[plugins[j]] # type]

\* io_input_init and ai_engine_init take init_func of the plugin; io_input_init
\* asserts that there is one.
Create(type) ==
  /\ \E f \in Range(plugins) : TypeOf[f] = type
  /\ LET f == Find(type) IN
     IF f \in WithInit
     THEN users' = users \cup {f} /\ UNCHANGED crashed
     ELSE crashed' = TRUE /\ UNCHANGED users
  /\ UNCHANGED <<plugins, allocated, maxSize, loading, handles, mapped, opens>>

\* io_input_cleanup, ai_engine_cleanup
Destroy(f) ==
  /\ f \in users
  /\ users' = users \ {f}
  /\ UNCHANGED <<plugins, allocated, maxSize, loading, handles, mapped, opens, crashed>>

\* Nothing else runs while a folder is loaded.
Next == ~crashed /\
  \/ LoadNext
  \/ /\ loading = <<>>
     /\ \/ Start \/ LoadFolder \/ Cleanup
        \/ \E f \in Files : LoadFile(f) \/ Unload(f) \/ Destroy(f)
        \/ \E f \in Files : TypeOf[f] # "" /\ Create(TypeOf[f])

Spec == Init /\ [][Next]_vars

-----------------------------------------------------------------------------
\* Every variable has its type.
TypeOK ==
  /\ plugins \in Seq(Files) /\ maxSize \in Nat /\ loading \in Seq(Files)
  /\ {allocated, crashed} \subseteq BOOLEAN
  /\ handles \in [Files -> Nat]
  /\ mapped \subseteq Files /\ users \subseteq Files
  /\ opens \in Nat /\ opens + Len(loading) <= MaxOpens

\* Whatever is added, added again, removed and cleaned up, in whichever order: the
\* array holds each file with an open handle once and no other, within its slots
\* (ann-plugins.c:56-95), and inputs and engines call code that is still mapped.
PluginsHeld == ~crashed =>
  /\ \A i, j \in DOMAIN plugins : plugins[i] = plugins[j] => i = j
  /\ \A f \in Files : handles[f] = (IF f \in Range(plugins) THEN 1 ELSE 0)
  /\ Len(plugins) <= (IF allocated THEN maxSize ELSE 0)
  /\ users \subseteq mapped
=============================================================================
