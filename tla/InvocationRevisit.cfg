CONSTANTS
    Plugins <- MCPlugins
    Legacy = {"b"}
    Hooked = {"l"}
    Services <- MCServices
    Owner <- MCOwner
    Terminal <- MCTerminal
    Layers <- MCLayers
    Imports <- MCImports
    Roots <- MCRoots
    Abi = {"c"}
    Ceiling <- MCCeiling
    Caps = {"write"}
    Kernel = Kernel
    Deliveries = {d1}
    Listeners = {"a"}
    MaxHandles = 0
    MaxRetired = 1
    None = None
SPECIFICATION Spec
INVARIANT
    RevisitAdmitted
