SPECIFICATION Spec
CONSTANTS
    NetDrivers = {"iavf", "mlx5_core", "ixgbevf"}
    DefaultDriver = "iavf"
    Installed = {"iavf", "mlx5_core", "vfio-pci", "igb_uio"}
    MaxFaults = 4
INVARIANTS
    TypeOK
    OverrideHarmless
PROPERTIES
    ImplementsDriverBinding
    RoundTrip
    RestoreSucceeds
