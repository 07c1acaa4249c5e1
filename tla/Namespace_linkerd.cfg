SPECIFICATION Spec
CONSTANTS
  Shell = {s1}
  Tool = {"linkerd"}
  Namespaces = {"emojivoto", "linkerd-viz", "linkerd"}
  Preexisting = {"emojivoto", "linkerd-viz", "linkerd"}
  NoNamespace <- MC_NoNamespace
  own <- MC_own
  yml <- MC_yml
  pinned <- MC_pinned
  deletes <- MC_deletes
  sweeps <- MC_sweeps
  again <- MC_again
INVARIANT NoOrphanProxy
