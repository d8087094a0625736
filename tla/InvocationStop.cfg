\* Deadlock: a stop hook that calls a plugin whose call waits for the plugin
\* being stopped.
CONSTANTS
    Plugins <- MCPlugins
    Legacy = {"b"}
    Hooked = {"l"}
    Services <- MCServices
    Owner <- MCOwner
    Terminal <- MCTerminalOpen
    Layers <- MCLayers
    Imports <- MCImports
    Roots <- MCRoots
    Abi = {"c"}
    Ceiling <- MCCeiling
    Caps = {"write"}
    Kernel = Kernel
    Deliveries = {d1}
    Listeners = {"a"}
    MaxHandles = 2
    MaxRetired = 1
    None = None
SPECIFICATION Spec
INVARIANT NoSelfWait
